---- MODULE Spec2Model ----
(***************************************************************************)
(* A model of rust_udev: the rule matcher (rules/matcher.rs), the rule     *)
(* parser and hot reload (rules/parser.rs), the action executor            *)
(* (actions.rs) and the daemon loop with its per-event tasks (udevd.rs).   *)
(*                                                                         *)
(* Strings are sequences of one-character strings, so that comparison,     *)
(* trimming, case folding and substring replacement are computed and not   *)
(* assumed.  An Option<T> is <<>> (None) or <<v>> (Some(v)).  A HashMap is  *)
(* a function whose DOMAIN is the set of its keys.                         *)
(***************************************************************************)
EXTENDS Integers, Sequences, FiniteSets, TLC

VARIABLES
    daemon,     \* the main thread: [pc, cause]
    rules,      \* the Vec<Rule> inside the shared Mutex
    mutex,      \* the task holding the Mutex's guard, 0 when it is free
    task,       \* the per-event tasks on the pool: task id -> record
    reload,     \* the reload thread: [pc, new, failed]
    notifyQ,    \* the channel of file-watcher notifications
    ruleDisk,   \* the rule directories on disk: path -> directory
    devFs,      \* the filesystem under the device-node root: path -> entry
    cmdLog,     \* the shell commands run so far, in order
    recent,     \* the two events whose tasks returned last, and whether the
                \* filesystem is still as the last of them left it
    nEvents,    \* events dispatched so far
    nEdits,     \* edits of the rule directories so far
    sysfs,      \* the files under /sys: path -> content
    mRule,      \* matcher harness: the rule under test
    mEvent,     \* matcher harness: the event under test
    mOrig,      \* matcher harness: the event before a key was removed
    mResult,    \* matcher harness: <<>> or <<result of Rule::matches>>
    xh,         \* executor harness: [rule, event, env, runs, first, before, panic]
    call        \* function harness: [fn, arg, ret], ret <<>> before the call

daemonVars == <<daemon, rules, mutex, task, reload, notifyQ, ruleDisk, recent,
                nEvents, nEdits>>
matchVars == <<mRule, mEvent, mOrig, mResult>>

vars == <<daemon, rules, mutex, task, reload, notifyQ, ruleDisk, devFs, cmdLog,
          recent, nEvents, nEdits, sysfs, mRule, mEvent, mOrig, mResult, xh, call>>

-----------------------------------------------------------------------------
(* Strings                                                                 *)

None == <<>>
Some(v) == <<v>>
IsSome(o) == o # <<>>
EmptyMap == <<>>

S_add == <<"a","d","d">>
S_ADD == <<"A","D","D">>
S_remove == <<"r","e","m","o","v","e">>
S_change == <<"c","h","a","n","g","e">>
S_bind == <<"b","i","n","d">>
S_unbind == <<"u","n","b","i","n","d">>
S_move == <<"m","o","v","e">>
S_usb == <<"u","s","b">>
S_usb_device == <<"u","s","b","_","d","e","v","i","c","e">>
S_sda == <<"s","d","a">>
S_drv == <<"d","r","v">>
S_t == <<"t">>
S_1 == <<"1">>
S_2 == <<"2">>
S_sys == <<"/","s","y","s">>

K_ACTION == <<"A","C","T","I","O","N">>
K_SUBSYSTEM == <<"S","U","B","S","Y","S","T","E","M">>
K_KERNEL == <<"K","E","R","N","E","L">>
K_DEVPATH == <<"D","E","V","P","A","T","H">>
K_DRIVER == <<"D","R","I","V","E","R">>
K_TAG == <<"T","A","G">>
K_DEVTYPE == <<"D","E","V","T","Y","P","E">>
K_DEVNAME == <<"D","E","V","N","A","M","E">>
K_ID == <<"I","D">>

Whitespace == {" ", "\n", "\t"}

RECURSIVE TrimStart(_)
TrimStart(s) ==
    IF s # <<>> /\ Head(s) \in Whitespace THEN TrimStart(Tail(s)) ELSE s

RECURSIVE TrimEnd(_)
TrimEnd(s) ==
    IF s # <<>> /\ s[Len(s)] \in Whitespace
    THEN TrimEnd(SubSeq(s, 1, Len(s) - 1))
    ELSE s

\* str::trim: leading and trailing whitespace removed.
Trim(s) == TrimEnd(TrimStart(s))

\* PathBuf::push: an absolute argument replaces the path, a relative one is
\* appended after a separator.
PathPush(base, p) ==
    IF p # <<>> /\ Head(p) = "/" THEN p
    ELSE IF base # <<>> /\ base[Len(base)] = "/" THEN base \o p
    ELSE base \o <<"/">> \o p

-----------------------------------------------------------------------------
(* Rule (rules/matcher.rs)                                                 *)

EmptyRule ==
    [ action |-> None, kernel |-> None, subsystem |-> None, driver |-> None,
      devpath |-> None, tag |-> None,
      attr |-> <<>>, env_vars |-> <<>>,
      name |-> None, symlink |-> <<>>, owner |-> None, group |-> None,
      mode |-> None,
      run |-> EmptyMap, program |-> None,
      label |-> None, goto |-> None,
      ignore_device |-> FALSE, last_rule |-> FALSE ]

\* HashMap::get(key) as an Option.
Get(map, key) == IF key \in DOMAIN map THEN Some(map[key]) ELSE None

has_conditions_always(self) == TRUE

has_conditions(self) ==
    \/ IsSome(self.action)
    \/ IsSome(self.subsystem)
    \/ IsSome(self.kernel)
    \/ IsSome(self.devpath)
    \/ IsSome(self.driver)
    \/ IsSome(self.tag)
    \/ self.env_vars # <<>>
    \/ self.attr # <<>>

ToLowerTable ==
    [ A |-> "a", B |-> "b", C |-> "c", D |-> "d", E |-> "e", F |-> "f",
      G |-> "g", H |-> "h", I |-> "i", J |-> "j", K |-> "k", L |-> "l",
      M |-> "m", N |-> "n", O |-> "o", P |-> "p", Q |-> "q", R |-> "r",
      S |-> "s", T |-> "t", U |-> "u", V |-> "v", W |-> "w", X |-> "x",
      Y |-> "y", Z |-> "z" ]

\* str::to_lowercase on the ASCII letters.
ToLower(s) ==
    [i \in 1..Len(s) |-> IF s[i] \in DOMAIN ToLowerTable THEN ToLowerTable[s[i]] ELSE s[i]]

EqIgnoreCase(a, b) == ToLower(a) = ToLower(b)

\* `event.get(KEY) != Some(value)` with a case-insensitive comparison.
field_differs_nocase(event, key, value) ==
    ~(key \in DOMAIN event /\ EqIgnoreCase(event[key], value))

\* `event.get(KEY) != Some(value)`: the key is absent or its value is another
\* string.
field_differs(event, key, value) == Get(event, key) # Some(value)

env_var_fails_lenient(event, kv) ==
    kv[1] \in DOMAIN event /\ event[kv[1]] # kv[2]

\* One pass of the env_vars loop: TRUE when the loop returns false.
env_var_fails(event, kv) ==
    IF kv[1] \in DOMAIN event THEN event[kv[1]] # kv[2] ELSE TRUE

\* The path the attribute is read from: PathBuf::from("/sys"), push(DEVPATH),
\* push(key).
attr_path(sys_path, key) == PathPush(PathPush(S_sys, sys_path), key)

\* One pass of the attr loop: TRUE when the loop returns false.
attr_fails(sys_path, kv) ==
    LET p == attr_path(sys_path, kv[1])
    IN  IF p \in DOMAIN sysfs THEN Trim(sysfs[p]) # kv[2] ELSE TRUE

matches(self, event) ==
    IF ~has_conditions(self) THEN FALSE
    ELSE IF IsSome(self.action) /\ field_differs(event, K_ACTION, self.action[1]) THEN FALSE
    ELSE IF IsSome(self.subsystem) /\ field_differs(event, K_SUBSYSTEM, self.subsystem[1]) THEN FALSE
    ELSE IF IsSome(self.kernel) /\ field_differs(event, K_KERNEL, self.kernel[1]) THEN FALSE
    ELSE IF IsSome(self.devpath) /\ field_differs(event, K_DEVPATH, self.devpath[1]) THEN FALSE
    ELSE IF IsSome(self.driver) /\ field_differs(event, K_DRIVER, self.driver[1]) THEN FALSE
    ELSE IF IsSome(self.tag) /\ field_differs(event, K_TAG, self.tag[1]) THEN FALSE
    ELSE IF \E i \in 1..Len(self.env_vars) : env_var_fails(event, self.env_vars[i]) THEN FALSE
    ELSE IF K_DEVPATH \in DOMAIN event
         THEN ~(\E i \in 1..Len(self.attr) : attr_fails(event[K_DEVPATH], self.attr[i]))
         ELSE self.attr = <<>>

-----------------------------------------------------------------------------
(* Rule parser (rules/parser.rs)                                           *)
(*                                                                         *)
(* A rule file is [name, kind, openable, lines].  A line is [skip, caps]:  *)
(* skip is TRUE for a blank line or a line starting with '#', caps is the  *)
(* sequence of captures kv_re.captures_iter yields on the trimmed line,    *)
(* each [key, op, val] with the quotes of val already stripped.  A         *)
(* directory is [readable, entries], entries in read_dir order.            *)

K_NAME == <<"N","A","M","E">>
K_SYMLINK == <<"S","Y","M","L","I","N","K">>
K_OWNER == <<"O","W","N","E","R">>
K_GROUP == <<"G","R","O","U","P">>
K_MODE == <<"M","O","D","E">>
K_RUN == <<"R","U","N">>
K_PROGRAM == <<"P","R","O","G","R","A","M">>
K_LABEL == <<"L","A","B","E","L">>
K_GOTO == <<"G","O","T","O">>
K_OPTIONS == <<"O","P","T","I","O","N","S">>
K_ENV_OPEN == <<"E","N","V","{">>
K_ATTR_OPEN == <<"A","T","T","R","{">>
S_ignore_device == <<"i","g","n","o","r","e","_","d","e","v","i","c","e">>
S_last_rule == <<"l","a","s","t","_","r","u","l","e">>

StartsWith(s, prefix) ==
    Len(s) >= Len(prefix) /\ SubSeq(s, 1, Len(prefix)) = prefix

\* str::trim_start_matches(prefix): every leading repetition is removed.
RECURSIVE TrimStartMatches(_, _)
TrimStartMatches(s, prefix) ==
    IF prefix # <<>> /\ StartsWith(s, prefix)
    THEN TrimStartMatches(SubSeq(s, Len(prefix) + 1, Len(s)), prefix)
    ELSE s

\* str::trim_end_matches(c): every trailing c is removed.
RECURSIVE TrimEndMatches(_, _)
TrimEndMatches(s, c) ==
    IF s # <<>> /\ s[Len(s)] = c
    THEN TrimEndMatches(SubSeq(s, 1, Len(s) - 1), c)
    ELSE s

\* HashMap::entry(k).or_default().push(v)
MapPush(map, k, v) ==
    IF k \in DOMAIN map
    THEN [map EXCEPT ![k] = Append(@, v)]
    ELSE (k :> <<v>>) @@ map

\* The body of the captures loop for one capture.
apply_capture(rule, cap) ==
    LET raw_key == cap.key
        op == cap.op
        val == cap.val
    IN  IF StartsWith(raw_key, K_ENV_OPEN)
        THEN [rule EXCEPT !.env_vars =
                 Append(@, <<TrimEndMatches(TrimStartMatches(raw_key, K_ENV_OPEN), "}"), val>>)]
        ELSE IF StartsWith(raw_key, K_ATTR_OPEN)
        THEN [rule EXCEPT !.attr =
                 Append(@, <<TrimEndMatches(TrimStartMatches(raw_key, K_ATTR_OPEN), "}"), val>>)]
        ELSE CASE raw_key = K_ACTION /\ op = "==" -> [rule EXCEPT !.action = Some(val)]
               [] raw_key = K_KERNEL /\ op = "==" -> [rule EXCEPT !.kernel = Some(val)]
               [] raw_key = K_SUBSYSTEM /\ op = "==" -> [rule EXCEPT !.subsystem = Some(val)]
               [] raw_key = K_DRIVER /\ op = "==" -> [rule EXCEPT !.driver = Some(val)]
               [] raw_key = K_DEVPATH /\ op = "==" -> [rule EXCEPT !.devpath = Some(val)]
               [] raw_key = K_TAG /\ op = "==" -> [rule EXCEPT !.tag = Some(val)]
               [] raw_key = K_NAME /\ op = "==" -> [rule EXCEPT !.name = Some(val)]
               [] raw_key = K_SYMLINK /\ op = "+=" -> [rule EXCEPT !.symlink = Append(@, val)]
               [] raw_key = K_OWNER /\ op = "=" -> [rule EXCEPT !.owner = Some(val)]
               [] raw_key = K_GROUP /\ op = "=" -> [rule EXCEPT !.group = Some(val)]
               [] raw_key = K_MODE /\ op = "=" -> [rule EXCEPT !.mode = Some(val)]
               [] raw_key = K_RUN /\ op = "+=" ->
                      IF IsSome(rule.action)
                      THEN [rule EXCEPT !.run = MapPush(@, rule.action[1], val)]
                      ELSE rule
               [] raw_key = K_PROGRAM /\ op = "==" -> [rule EXCEPT !.program = Some(val)]
               [] raw_key = K_LABEL /\ op = "=" -> [rule EXCEPT !.label = Some(val)]
               [] raw_key = K_GOTO /\ op = "=" -> [rule EXCEPT !.goto = Some(val)]
               [] raw_key = K_OPTIONS /\ op = "+=" ->
                      IF val = S_ignore_device THEN [rule EXCEPT !.ignore_device = TRUE]
                      ELSE IF val = S_last_rule THEN [rule EXCEPT !.last_rule = TRUE]
                      ELSE rule
               [] OTHER -> rule

\* One non-skipped line: a fresh rule, every capture applied in line order.
RECURSIVE parse_captures(_, _)
parse_captures(rule, caps) ==
    IF caps = <<>> THEN rule
    ELSE parse_captures(apply_capture(rule, Head(caps)), Tail(caps))

parse_line(line) == parse_captures(EmptyRule, line.caps)

\* The lines loop of one opened file.
RECURSIVE parse_lines(_)
parse_lines(lines) ==
    IF lines = <<>> THEN <<>>
    ELSE IF Head(lines).skip THEN parse_lines(Tail(lines))
    ELSE <<parse_line(Head(lines))>> \o parse_lines(Tail(lines))

Digits == <<"0","1","2","3","4","5","6","7","8","9">>
IsDigit(c) == \E i \in 1..10 : Digits[i] = c
DigitValue(c) == (CHOOSE i \in 1..10 : Digits[i] = c) - 1

(* Parsed integers are kept as canonical decimal strings (no leading zero,  *)
(* <<"0">> for zero): u32 and u64 values do not fit the checker's integers, *)
(* and the code only compares them, prints them or passes them on.         *)
U32MaxDigits == <<"4","2","9","4","9","6","7","2","9","5">>
U64MaxDigits == <<"1","8","4","4","6","7","4","4","0","7","3","7","0","9","5","5","1","6","1","5">>
Zero == <<"0">>

RECURSIVE StripZeros(_)
StripZeros(s) ==
    IF Len(s) > 1 /\ Head(s) = "0" THEN StripZeros(Tail(s)) ELSE s

RECURSIVE LexLess(_, _)
LexLess(a, b) ==
    IF a = <<>> \/ b = <<>> THEN FALSE
    ELSE IF DigitValue(Head(a)) # DigitValue(Head(b))
    THEN DigitValue(Head(a)) < DigitValue(Head(b))
    ELSE LexLess(Tail(a), Tail(b))

\* a < b for canonical decimal strings.
NumLess(a, b) == Len(a) < Len(b) \/ (Len(a) = Len(b) /\ LexLess(a, b))

AllDigits(s) == s # <<>> /\ \A i \in 1..Len(s) : IsDigit(s[i])

\* str::parse for an unsigned integer type with the given maximum: an optional
\* '+', then one or more digits, the value not above the maximum.
ParseUnsigned(s, maxDigits) ==
    LET body == IF s # <<>> /\ Head(s) = "+" THEN Tail(s) ELSE s
    IN  IF AllDigits(body) /\ ~NumLess(maxDigits, StripZeros(body))
        THEN Some(StripZeros(body))
        ELSE None

\* The pieces `name.split(|c| !c.is_digit(10))` yields, in order.
\* acc is the piece being read.
RECURSIVE SplitNonDigits(_, _)
SplitNonDigits(s, acc) ==
    IF s = <<>> THEN <<acc>>
    ELSE IF IsDigit(Head(s)) THEN SplitNonDigits(Tail(s), Append(acc, Head(s)))
    ELSE <<acc>> \o SplitNonDigits(Tail(s), <<>>)

\* `.filter_map(|s| s.parse::<u32>().ok()).next().unwrap_or(0)`
RECURSIVE FirstParsed(_)
FirstParsed(pieces) ==
    IF pieces = <<>> THEN Zero
    ELSE IF IsSome(ParseUnsigned(Head(pieces), U32MaxDigits))
    THEN ParseUnsigned(Head(pieces), U32MaxDigits)[1]
    ELSE FirstParsed(Tail(pieces))

sort_key(name) == FirstParsed(SplitNonDigits(name, <<>>))

\* Vec::sort_by_key: a stable sort, ascending by sort_key of the file name.
RECURSIVE InsertByKey(_, _)
InsertByKey(sorted, e) ==
    IF sorted = <<>> THEN <<e>>
    ELSE IF NumLess(sort_key(e.name), sort_key(Head(sorted).name))
    THEN <<e>> \o sorted
    ELSE <<Head(sorted)>> \o InsertByKey(Tail(sorted), e)

RECURSIVE sort_entries(_)
sort_entries(entries) ==
    IF entries = <<>> THEN <<>>
    ELSE InsertByKey(sort_entries(SubSeq(entries, 1, Len(entries) - 1)),
                     entries[Len(entries)])

\* The entries loop: File::open(entry)? returns the error of the first entry
\* that cannot be opened; an entry that opens but whose every read fails (a
\* directory) keeps `reader.lines().flatten()` iterating without end.
RECURSIVE parse_entries(_, _)
parse_entries(entries, acc) ==
    IF entries = <<>> THEN [status |-> "ok", rules |-> acc]
    ELSE LET e == Head(entries)
         IN  IF ~e.openable THEN [status |-> "err", rules |-> <<>>]
             ELSE IF e.kind = "dir" THEN [status |-> "hang", rules |-> <<>>]
             ELSE parse_entries(Tail(entries), acc \o parse_lines(e.lines))

parse_rules_file(dir) ==
    IF ~dir.readable THEN [status |-> "err", rules |-> <<>>]
    ELSE parse_entries(sort_entries(dir.entries), <<>>)

\* `if let Ok(rules) = parse_rules_file(path) { all_rules.extend(rules) }`
load_extend(acc, res) == IF res.status = "ok" THEN acc \o res.rules ELSE acc

\* load_all_rules: never an Err; "hang" when a directory's parse never returns.
RECURSIVE load_all_rules_from(_, _, _)
load_all_rules_from(paths, disk, acc) ==
    IF paths = <<>> THEN [status |-> "ok", rules |-> acc]
    ELSE LET res == parse_rules_file(disk[Head(paths)])
         IN  IF res.status = "hang" THEN [status |-> "hang", rules |-> <<>>]
             ELSE load_all_rules_from(Tail(paths), disk, load_extend(acc, res))

load_all_rules(paths, disk) == load_all_rules_from(paths, disk, <<>>)

-----------------------------------------------------------------------------
(* Device accessors (device.rs), read from the event's property map        *)

K_MAJOR == <<"M","A","J","O","R">>
K_MINOR == <<"M","I","N","O","R">>
K_DEVNUM == <<"D","E","V","N","U","M">>
S_disk == <<"d","i","s","k">>
S_partition == <<"p","a","r","t","i","t","i","o","n">>

devnode(device) == Get(device, K_DEVNAME)
kernel(device) == Get(device, K_KERNEL)
devtype(device) == Get(device, K_DEVTYPE)
devpath(device) == Get(device, K_DEVPATH)
subsystem(device) == Get(device, K_SUBSYSTEM)

\* event.get(KEY).and_then(|s| s.parse().ok())
ParsedProperty(device, key, maxDigits) ==
    IF key \in DOMAIN device THEN ParseUnsigned(device[key], maxDigits) ELSE None

major(device) == ParsedProperty(device, K_MAJOR, U32MaxDigits)
minor(device) == ParsedProperty(device, K_MINOR, U32MaxDigits)
devnum(device) == ParsedProperty(device, K_DEVNUM, U64MaxDigits)

UnwrapOr(o, d) == IF IsSome(o) THEN o[1] ELSE d

-----------------------------------------------------------------------------
(* The filesystem under the device-node root                               *)
(*                                                                         *)
(* fs maps each path of FsPaths to what is there.  The root itself is a    *)
(* directory that exists; nothing outside FsPaths exists or can be         *)
(* created.  No directory of FsPaths is reached through a symbolic link.   *)
(* A fault names the one kind of system call the environment refuses       *)
(* during a call of execute_rule_actions ("none": no refusal).             *)

S_root == <<"/","h","o","m","e","/","r","u","s","t","_","u","d","e","v","/","t","e","s","t","d","e","v">>

P_n == S_root \o <<"/","n">>
P_l == S_root \o <<"/","l">>
P_d == S_root \o <<"/","d">>
P_dm == S_root \o <<"/","d","/","m">>
P_dk == S_root \o <<"/","d","/","k">>

FsPaths == {P_n, P_l, P_d, P_dm, P_dk}

Faults == {"none", "mkdir", "mknod", "chmod", "symlink", "remove", "spawn"}

Absent == [kind |-> "absent"]
DirEntry == [kind |-> "dir", mode |-> 493, uid |-> 0, gid |-> 0]
FileEntry == [kind |-> "file", mode |-> 420, uid |-> 0, gid |-> 0]
LinkEntry(target) == [kind |-> "link", target |-> target]

DefaultNodeMode == 432

\* What mknod creates: the type, the device number, permissions 0o660, the
\* daemon's own uid and gid.
NodeEntry(sflag, maj, min) ==
    [kind |-> "node", sflag |-> sflag, major |-> maj, minor |-> min,
     mode |-> DefaultNodeMode, uid |-> 0, gid |-> 0]

Lookup(fs, p) == IF p \in DOMAIN fs THEN fs[p] ELSE Absent

\* Path::parent: the path without its last component.
RECURSIVE Parent(_)
Parent(p) ==
    IF p = <<>> THEN <<>>
    ELSE IF p[Len(p)] = "/" THEN SubSeq(p, 1, Len(p) - 1)
    ELSE Parent(SubSeq(p, 1, Len(p) - 1))

\* The path a chain of symbolic links starting at p ends at: <<>> when the
\* chain ends at nothing or never ends.
RECURSIVE ResolveWithin(_, _, _)
ResolveWithin(fs, p, hops) ==
    LET e == Lookup(fs, p)
    IN  IF p = S_root THEN Some(p)
        ELSE IF e.kind = "absent" THEN None
        ELSE IF e.kind # "link" THEN Some(p)
        ELSE IF hops = 0 THEN None
        ELSE ResolveWithin(fs, e.target, hops - 1)

\* Path::canonicalize
canonicalize(fs, p) == ResolveWithin(fs, p, Cardinality(FsPaths))

\* Path::exists: follows symbolic links.
exists(fs, p) == IsSome(canonicalize(fs, p))

is_dir(fs, p) ==
    /\ exists(fs, p)
    /\ (canonicalize(fs, p)[1] = S_root \/ fs[canonicalize(fs, p)[1]].kind = "dir")

\* fs::create_dir_all: [ok, fs].
RECURSIVE create_dir_all(_, _, _)
create_dir_all(fs, p, fault) ==
    IF is_dir(fs, p) THEN [ok |-> TRUE, fs |-> fs]
    ELSE IF Lookup(fs, p).kind # "absent" \/ p \notin FsPaths
    THEN [ok |-> FALSE, fs |-> fs]
    ELSE LET up == create_dir_all(fs, Parent(p), fault)
         IN  IF ~up.ok \/ fault = "mkdir" THEN [ok |-> FALSE, fs |-> up.fs]
             ELSE [ok |-> TRUE, fs |-> [up.fs EXCEPT ![p] = DirEntry]]

\* fs::remove_file (unlink): [ok, fs].
remove_file(fs, p, fault) ==
    IF Lookup(fs, p).kind \in {"absent", "dir"} \/ fault = "remove"
    THEN [ok |-> FALSE, fs |-> fs]
    ELSE [ok |-> TRUE, fs |-> [fs EXCEPT ![p] = Absent]]

\* std::os::unix::fs::symlink(target, link): [ok, fs].
symlink(fs, target, link, fault) ==
    IF \/ link \notin FsPaths
       \/ Lookup(fs, link).kind # "absent"
       \/ ~is_dir(fs, Parent(link))
       \/ fault = "symlink"
    THEN [ok |-> FALSE, fs |-> fs]
    ELSE [ok |-> TRUE, fs |-> [fs EXCEPT ![link] = LinkEntry(target)]]

\* chmod / chown on what the path resolves to: [ok, fs].
SetAttr(fs, p, field, value, fault) ==
    IF ~exists(fs, p) \/ canonicalize(fs, p)[1] = S_root \/ fault = "chmod"
    THEN [ok |-> FALSE, fs |-> fs]
    ELSE [ok |-> TRUE, fs |-> [fs EXCEPT ![canonicalize(fs, p)[1]][field] = value]]

-----------------------------------------------------------------------------
(* Actions (actions.rs)                                                    *)

S_root_name == <<"r","o","o","t">>
S_usbgrp == <<"u","s","b">>

\* The user and group databases get_user_by_name / get_group_by_name read.
Users == (S_root_name :> 0) @@ (S_usbgrp :> 100)
Groups == (S_root_name :> 0) @@ (S_usbgrp :> 100)

\* str::replace(pat, val): every non-overlapping occurrence, left to right.
RECURSIVE Replace(_, _, _)
Replace(s, pat, val) ==
    IF Len(s) < Len(pat) \/ pat = <<>> THEN s
    ELSE IF SubSeq(s, 1, Len(pat)) = pat
    THEN val \o Replace(SubSeq(s, Len(pat) + 1, Len(s)), pat, val)
    ELSE <<Head(s)>> \o Replace(Tail(s), pat, val)

\* The `vars` vector of substitute_vars, in its order.
SubstVars(device) ==
    << <<"k", kernel(device)>>,
       <<"n", devnode(device)>>,
       <<"p", devpath(device)>>,
       <<"c", devtype(device)>>,
       <<"t", devtype(device)>>,
       <<"d", devnum(device)>>,
       <<"s", subsystem(device)>>,
       <<"m", major(device)>>,
       <<"r", minor(device)>> >>

RECURSIVE ReplaceVars(_, _)
ReplaceVars(result, vs) ==
    IF vs = <<>> THEN result
    ELSE IF IsSome(Head(vs)[2])
    THEN ReplaceVars(Replace(result, <<"%", Head(vs)[1]>>, Head(vs)[2][1]), Tail(vs))
    ELSE ReplaceVars(result, Tail(vs))

\* The loop over device.properties(), visited in the order `keys`.
RECURSIVE ReplaceProperties(_, _, _)
ReplaceProperties(result, device, keys) ==
    IF keys = <<>> THEN result
    ELSE ReplaceProperties(
             Replace(result, <<"$", "{">> \o Head(keys) \o <<"}">>, device[Head(keys)]),
             device, Tail(keys))

\* substitute_vars; `keys` is the iteration order of the property map.
substitute_vars(input, device, keys) ==
    ReplaceProperties(ReplaceVars(input, SubstVars(device)), device, keys)

\* u32::from_str_radix(s, 8), kept modulo 0o10000 (the permission bits chmod
\* uses): an optional '+', then octal digits whose value fits 32 bits.
IsOctal(c) == IsDigit(c) /\ DigitValue(c) < 8

RECURSIVE OctalBits(_, _)
OctalBits(s, acc) ==
    IF s = <<>> THEN acc
    ELSE OctalBits(Tail(s), (acc * 8 + DigitValue(Head(s))) % 4096)

ParseOctal(s) ==
    LET body == IF s # <<>> /\ Head(s) = "+" THEN Tail(s) ELSE s
        sig == StripZeros(body)
    IN  IF /\ body # <<>>
           /\ \A i \in 1..Len(body) : IsOctal(body[i])
           /\ (Len(sig) < 11 \/ (Len(sig) = 11 /\ DigitValue(Head(sig)) < 4))
        THEN Some(OctalBits(body, 0))
        ELSE None

apply_mode(fs, dev_path, mode, fault) ==
    IF IsSome(mode)
    THEN IF IsSome(ParseOctal(mode[1]))
         THEN SetAttr(fs, dev_path, "mode", ParseOctal(mode[1])[1], fault)
         ELSE [ok |-> FALSE, fs |-> fs]
    ELSE [ok |-> TRUE, fs |-> fs]

apply_owner(fs, dev_path, owner, fault) ==
    IF IsSome(owner) /\ owner[1] \in DOMAIN Users
    THEN SetAttr(fs, dev_path, "uid", Users[owner[1]], fault)
    ELSE [ok |-> TRUE, fs |-> fs]

apply_group(fs, dev_path, group, fault) ==
    IF IsSome(group) /\ group[1] \in DOMAIN Groups
    THEN SetAttr(fs, dev_path, "gid", Groups[group[1]], fault)
    ELSE [ok |-> TRUE, fs |-> fs]

\* mode, owner and group applied after making the node when it is missing.
ApplyAll_creating(fs, path, rule, fault) ==
    LET f0 == IF path \in FsPaths /\ Lookup(fs, path).kind = "absent"
                 /\ is_dir(fs, Parent(path))
              THEN [fs EXCEPT ![path] = NodeEntry("S_IFCHR", Zero, Zero)]
              ELSE fs
        f1 == apply_mode(f0, path, rule.mode, fault).fs
        f2 == apply_owner(f1, path, rule.owner, fault).fs
    IN  apply_group(f2, path, rule.group, fault).fs

\* mode, owner and group applied one after another, each result dropped.
ApplyAll(fs, path, rule, fault) ==
    LET f1 == apply_mode(fs, path, rule.mode, fault).fs
        f2 == apply_owner(f1, path, rule.owner, fault).fs
    IN  apply_group(f2, path, rule.group, fault).fs

\* The mknod call of create_device_node: the filesystem afterwards (an error
\* is logged and dropped).
Mknod(fs, path, sflag, maj, min, fault) ==
    IF \/ fault = "mknod"
       \/ path \notin FsPaths
       \/ Lookup(fs, path).kind # "absent"
    THEN fs
    ELSE [fs EXCEPT ![path] = NodeEntry(sflag, maj, min)]

\* create_device_node: [panic, fs]; panic is the unwrap of a failed
\* create_dir_all.  The function returns Ok(()) on every other path.
create_device_node(fs, devname, device, rule, fault) ==
    LET maj == UnwrapOr(major(device), Zero)
        min == UnwrapOr(minor(device), Zero)
        sflag == IF devtype(device) \in {Some(S_disk), Some(S_partition)}
                 THEN "S_IFBLK" ELSE "S_IFCHR"
        path == S_root \o <<"/">> \o devname
        dirs == create_dir_all(fs, Parent(path), fault)
    IN  IF ~dirs.ok THEN [panic |-> TRUE, fs |-> dirs.fs]
        ELSE [panic |-> FALSE,
              fs |-> ApplyAll(Mknod(dirs.fs, path, sflag, maj, min, fault),
                              path, rule, fault)]

\* create_symlinks with `if exists { remove } else { symlink }`.
RECURSIVE create_symlinks_else(_, _, _, _, _, _)
create_symlinks_else(fs, dev_path, symlinks, device, keys, fault) ==
    IF symlinks = <<>> THEN fs
    ELSE LET link_path == PathPush(S_root, substitute_vars(Head(symlinks), device, keys))
             step == IF exists(fs, link_path)
                     THEN remove_file(fs, link_path, fault)
                     ELSE symlink(fs, dev_path, link_path, fault)
         IN  IF ~step.ok THEN step.fs
             ELSE create_symlinks_else(step.fs, dev_path, Tail(symlinks), device, keys, fault)

\* create_symlinks: the filesystem afterwards (the loop ends at the first
\* error, which the caller logs).
RECURSIVE create_symlinks(_, _, _, _, _, _)
create_symlinks(fs, dev_path, symlinks, device, keys, fault) ==
    IF symlinks = <<>> THEN fs
    ELSE LET link_path == PathPush(S_root, substitute_vars(Head(symlinks), device, keys))
             cleared == IF exists(fs, link_path)
                        THEN remove_file(fs, link_path, fault)
                        ELSE [ok |-> TRUE, fs |-> fs]
             made == symlink(cleared.fs, dev_path, link_path, fault)
         IN  IF ~cleared.ok THEN cleared.fs
             ELSE IF ~made.ok THEN made.fs
             ELSE create_symlinks(made.fs, dev_path, Tail(symlinks), device, keys, fault)

\* remove_device_node: the filesystem afterwards.
remove_device_node(fs, dev_path, fault) ==
    IF exists(fs, dev_path) THEN remove_file(fs, dev_path, fault).fs ELSE fs

\* The entries fs::read_dir(dir) yields: the paths directly under dir.
DirChildren(fs, dir) ==
    {p \in FsPaths : Parent(p) = dir /\ fs[p].kind # "absent"}

\* The read_dir loop removing every symlink it meets, whatever its target.
RECURSIVE remove_symlinks_loop_any(_, _, _, _)
remove_symlinks_loop_any(fs, dev_path_canon, entries, fault) ==
    IF entries = <<>> THEN fs
    ELSE LET path == Head(entries)
             e == Lookup(fs, path)
         IN  IF e.kind = "absent" THEN fs
             ELSE IF e.kind = "link"
             THEN IF remove_file(fs, path, fault).ok
                  THEN remove_symlinks_loop_any(remove_file(fs, path, fault).fs,
                                                dev_path_canon, Tail(entries), fault)
                  ELSE fs
             ELSE remove_symlinks_loop_any(fs, dev_path_canon, Tail(entries), fault)

\* The read_dir loop of remove_symlinks over `entries`, in that order.
RECURSIVE remove_symlinks_loop(_, _, _, _)
remove_symlinks_loop(fs, dev_path_canon, entries, fault) ==
    IF entries = <<>> THEN fs
    ELSE LET path == Head(entries)
             e == Lookup(fs, path)
             canon_target == IF e.kind = "link"
                             THEN canonicalize(fs, PathPush(Parent(path), e.target))
                             ELSE None
         IN  IF e.kind = "absent" THEN fs
             ELSE IF e.kind = "link" /\ canon_target = Some(dev_path_canon)
             THEN IF remove_file(fs, path, fault).ok
                  THEN remove_symlinks_loop(remove_file(fs, path, fault).fs,
                                            dev_path_canon, Tail(entries), fault)
                  ELSE fs
             ELSE remove_symlinks_loop(fs, dev_path_canon, Tail(entries), fault)

\* remove_symlinks; `entries` is read_dir(symlink_dir) in the order the
\* directory yields it.
remove_symlinks(fs, dev_path, entries, fault) ==
    IF IsSome(canonicalize(fs, dev_path))
    THEN remove_symlinks_loop(fs, canonicalize(fs, dev_path)[1], entries, fault)
    ELSE fs

\* The exit status of `sh -c cmd`.
ExitStatus(cmd) == IF cmd = <<"/","b","i","n","/","f","a","l","s","e">> THEN 1 ELSE 0

\* run_commands leaving the loop at the first command whose status is not 0.
RECURSIVE run_commands_until_failure(_, _, _)
run_commands_until_failure(log, commands, fault) ==
    IF commands = <<>> \/ fault = "spawn" THEN log
    ELSE IF ExitStatus(Head(commands)) # 0 THEN Append(log, Head(commands))
    ELSE run_commands_until_failure(Append(log, Head(commands)), Tail(commands), fault)

\* run_commands: the log afterwards.  Each command runs to completion before
\* the next starts; a command that cannot be spawned ends the loop.
RECURSIVE run_commands(_, _, _)
run_commands(log, commands, fault) ==
    IF commands = <<>> \/ fault = "spawn" THEN log
    ELSE run_commands(Append(log, Head(commands)), Tail(commands), fault)

\* The io::Result run_commands returns: Err when `output()?` could not spawn
\* the shell, Ok(()) after the loop whatever the commands' exit statuses.
run_commands_ok(commands, fault) == commands = <<>> \/ fault # "spawn"

-----------------------------------------------------------------------------
(* execute_rule_actions (udevd.rs)                                         *)
(*                                                                         *)
(* env = [fault, rev]: what the environment decides during one call: the   *)
(* system call it refuses, and the order in which the property map and     *)
(* read_dir are iterated (each is unspecified; rev reverses both).         *)

Envs == [fault : Faults, rev : BOOLEAN]

\* The refusals the daemon's runs are checked under.
DaemonEnvs == [fault : {"none", "mkdir", "mknod"}, rev : BOOLEAN]

Reverse(s) == [i \in 1..Len(s) |-> s[Len(s) + 1 - i]]

KeyOrder ==
    <<K_ACTION, K_DEVNAME, K_DEVNUM, K_DEVPATH, K_DEVTYPE, K_DRIVER, K_ID,
      K_KERNEL, K_MAJOR, K_MINOR, K_SUBSYSTEM, K_TAG>>

PathOrder == <<P_d, P_dk, P_dm, P_l, P_n>>

\* device.properties() in iteration order.
PropertyKeys(device, rev) ==
    LET ks == SelectSeq(KeyOrder, LAMBDA k : k \in DOMAIN device)
    IN  IF rev THEN Reverse(ks) ELSE ks

\* fs::read_dir(dir) in iteration order.
ReadDir(fs, dir, rev) ==
    LET ps == SelectSeq(PathOrder, LAMBDA q : q \in DirChildren(fs, dir))
    IN  IF rev THEN Reverse(ps) ELSE ps

\* `if let Some(cmds) = rule.run.get(action) { run_commands(cmds, event) }`
RunFor(log, rule, action, fault) ==
    IF action \in DOMAIN rule.run THEN run_commands(log, rule.run[action], fault) ELSE log

Outcome(fs, log, panic) == [fs |-> fs, log |-> log, panic |-> panic]

\* execute_rule_actions: [fs, log, panic].
execute_rule_actions(fs, log, rule, event, env) ==
    LET action == Get(event, K_ACTION)
        fault == env.fault
    IN  IF K_DEVNAME \notin DOMAIN event THEN Outcome(fs, log, FALSE)
        ELSE
        LET devname == event[K_DEVNAME]
            dev_path == PathPush(S_root, devname)
            keys == PropertyKeys(event, env.rev)
        IN  CASE action = Some(S_add) ->
                   LET node == create_device_node(fs, devname, event, rule, fault)
                   IN  IF node.panic THEN Outcome(node.fs, log, TRUE)
                       ELSE Outcome(create_symlinks(node.fs, dev_path, rule.symlink,
                                                    event, keys, fault),
                                    RunFor(log, rule, S_add, fault), FALSE)
              [] action = Some(S_remove) ->
                   LET unlinked == remove_symlinks(fs, dev_path,
                                                   ReadDir(fs, S_root, env.rev), fault)
                   IN  Outcome(remove_device_node(unlinked, dev_path, fault),
                               RunFor(log, rule, S_remove, fault), FALSE)
              [] action = Some(S_change) ->
                   Outcome(ApplyAll(fs, dev_path, rule, fault), log, FALSE)
              [] action = Some(S_bind) ->
                   Outcome(create_symlinks(ApplyAll(fs, dev_path, rule, fault), dev_path,
                                           rule.symlink, event, keys, fault),
                           RunFor(log, rule, S_bind, fault), FALSE)
              [] action = Some(S_unbind) ->
                   Outcome(remove_symlinks(fs, dev_path,
                                           ReadDir(fs, S_root, env.rev), fault),
                           RunFor(log, rule, S_unbind, fault), FALSE)
              [] OTHER -> Outcome(fs, log, FALSE)

\* The two filters at the head of the per-event task.
SupportedActions == {S_add, S_remove, S_change, S_bind, S_unbind}

\* The ACTION filter without the DEVTYPE filter before it.
passes_filter_action(event) ==
    K_ACTION \in DOMAIN event /\ event[K_ACTION] \in SupportedActions

passes_filter_devtype(event) == Get(event, K_DEVTYPE) = Some(S_usb_device)

passes_filter(event) ==
    /\ Get(event, K_DEVTYPE) = Some(S_usb_device)
    /\ K_ACTION \in DOMAIN event /\ event[K_ACTION] \in SupportedActions

-----------------------------------------------------------------------------
(* The inputs the model draws from                                         *)

MaxEvents == 2
NumTasks == 2
MaxEdits == 1

Tasks == 1..NumTasks

Cap(k, op, v) == [key |-> k, op |-> op, val |-> v]
RuleLine(caps) == [skip |-> FALSE, caps |-> caps]
SkippedLine == [skip |-> TRUE, caps |-> <<>>]

S_l == <<"l">>
S_n == <<"n">>
S_dm == <<"d","/","m">>
S_k == <<"k">>
S_dvar == <<"d","/","%","k">>
S_0600 == <<"0","6","0","0">>
S_true == <<"/","b","i","n","/","t","r","u","e">>
S_false == <<"/","b","i","n","/","f","a","l","s","e">>
S_x == <<"/","x">>
S_rules == <<"r","u","l","e","s">>
K_FOO == <<"F","O","O">>

\* ACTION=="add", SYMLINK+="l", MODE="0600", RUN+="/bin/true"
LineA == RuleLine(<< Cap(K_ACTION, "==", S_add), Cap(K_SYMLINK, "+=", S_l),
                      Cap(K_MODE, "=", S_0600), Cap(K_RUN, "+=", S_true) >>)
\* SUBSYSTEM=="usb", SYMLINK+="d/%k", OWNER="usb"
LineZ == RuleLine(<< Cap(K_SUBSYSTEM, "==", S_usb), Cap(K_SYMLINK, "+=", S_dvar),
                      Cap(K_OWNER, "=", S_usbgrp) >>)
\* ACTION=="remove", RUN+="/bin/false", RUN+="/bin/true"
LineR == RuleLine(<< Cap(K_ACTION, "==", S_remove), Cap(K_RUN, "+=", S_false),
                      Cap(K_RUN, "+=", S_true) >>)
\* FOO=="x", SYMLINK+="l": no key the matcher reads
LineU == RuleLine(<< Cap(K_FOO, "==", S_x), Cap(K_SYMLINK, "+=", S_l) >>)

RuleFile(name, lines) ==
    [name |-> name, kind |-> "file", openable |-> TRUE, lines |-> lines]

File10 == RuleFile(<<"1","0","-","a",".","r","u","l","e","s">>, <<SkippedLine, LineU, LineA>>)
File99 == RuleFile(<<"9","9","-","z",".","r","u","l","e","s">>, <<LineZ>>)
SubDir == [name |-> <<"7","0","-","d">>, kind |-> "dir", openable |-> TRUE, lines |-> <<>>]

DirAZ == [readable |-> TRUE, entries |-> <<File99, File10>>]
DirZ == [readable |-> TRUE, entries |-> <<File99>>]
DirLocked == [readable |-> TRUE,
              entries |-> <<File99, [File10 EXCEPT !.openable = FALSE]>>]
DirWithSubDir == [readable |-> TRUE, entries |-> <<File99, SubDir>>]

InitDisks == {DirAZ}
DiskStates == {DirAZ, DirZ, DirLocked, DirWithSubDir}
NotifyKinds == {"Modify", "Create"}

\* The directories start_udevd configures.
RulePaths == <<S_rules>>

BaseEvent(action, devname) ==
    (K_ACTION :> action) @@ (K_DEVNAME :> devname) @@ (K_DEVTYPE :> S_usb_device)
    @@ (K_SUBSYSTEM :> S_usb) @@ (K_KERNEL :> S_k) @@ (K_DEVPATH :> S_x)

Without(event, key) == [k \in DOMAIN event \ {key} |-> event[k]]

DaemonEvents ==
    {BaseEvent(a, d) : a \in {S_add, S_remove}, d \in {S_n, S_dm}}
    \cup { BaseEvent(S_change, S_n), BaseEvent(S_bind, S_dm), BaseEvent(S_unbind, S_dm),
           BaseEvent(S_move, S_n),
           Without(BaseEvent(S_add, S_n), K_DEVTYPE),
           Without(BaseEvent(S_add, S_n), K_DEVNAME) }

EmptyFs == [p \in FsPaths |-> Absent]

InitFsStates ==
    { EmptyFs,
      [EmptyFs EXCEPT ![P_d] = FileEntry],
      [EmptyFs EXCEPT ![P_d] = DirEntry, ![P_l] = FileEntry],
      [EmptyFs EXCEPT ![P_n] = NodeEntry("S_IFCHR", Zero, Zero),
                      ![P_l] = LinkEntry(P_dm)] }

SysfsFiles ==
    (<<"/","x","/","a">> :> <<"1","\n">>)
    @@ (<<"/","s","y","s","/","y","/","a">> :> <<" ","1">>)

-----------------------------------------------------------------------------
(* The daemon (udevd.rs) and the reload thread (rules/parser.rs)           *)

IdleTask ==
    [pc |-> "idle", event |-> <<>>, i |-> 0, matched |-> FALSE, ran |-> <<>>,
     handle |-> <<>>, locked |-> <<>>, seen |-> <<>>, fault |-> "none"]

NoCall == [fn |-> "none", arg |-> <<>>, ret |-> <<>>]

NoHarness ==
    /\ call = NoCall
    /\ mRule = EmptyRule /\ mEvent = <<>> /\ mOrig = <<>> /\ mResult = <<>>
    /\ xh = [rule |-> EmptyRule, event |-> <<>>, env |-> [fault |-> "none", rev |-> FALSE],
             runs |-> 0, first |-> <<>>, before |-> <<>>, panic |-> FALSE]

NoDaemon ==
    /\ daemon = [pc |-> "off", cause |-> "none"]
    /\ rules = <<>> /\ mutex = 0 /\ task = [w \in Tasks |-> IdleTask]
    /\ reload = [pc |-> "wait", new |-> <<>>, failed |-> FALSE]
    /\ notifyQ = <<>> /\ ruleDisk = [d \in {S_rules} |-> DirZ]
    /\ recent = [prev |-> <<>>, cur |-> <<>>, fresh |-> FALSE]
    /\ nEvents = 0 /\ nEdits = 0

\* The state when start_udevd has built the RuleManager: the rules of the
\* configured directories are loaded and the reload thread waits.
Init ==
    /\ daemon = [pc |-> "init", cause |-> "none"]
    /\ ruleDisk \in [{S_rules} -> InitDisks]
    /\ rules = load_all_rules(RulePaths, ruleDisk).rules
    /\ mutex = 0
    /\ task = [w \in Tasks |-> IdleTask]
    /\ reload = [pc |-> "wait", new |-> <<>>, failed |-> FALSE]
    /\ notifyQ = <<>>
    /\ devFs \in InitFsStates
    /\ cmdLog = <<>>
    /\ recent = [prev |-> <<>>, cur |-> <<>>, fresh |-> FALSE]
    /\ nEvents = 0 /\ nEdits = 0
    /\ sysfs = SysfsFiles
    /\ NoHarness

\* The process runs: the main thread has not returned and nothing aborted.
Alive == daemon.pc \notin {"off", "stopped"}

\* The process ends (main returns, or the process aborts): its threads and
\* its memory are gone; the disk stays as it is.
Exit(cause) ==
    /\ daemon' = [pc |-> "stopped", cause |-> cause]
    /\ rules' = <<>>
    /\ mutex' = 0
    /\ task' = [w \in Tasks |-> IdleTask]
    /\ reload' = [pc |-> "wait", new |-> <<>>, failed |-> FALSE]
    /\ notifyQ' = <<>>

harnessVars == <<sysfs, mRule, mEvent, mOrig, mResult, xh, call>>

\* UEventMonitor::new succeeds: the loop is entered.
SetupOk ==
    /\ daemon.pc = "init"
    /\ daemon' = [daemon EXCEPT !.pc = "poll"]
    /\ UNCHANGED <<rules, mutex, task, reload, notifyQ, ruleDisk, devFs, cmdLog, recent,
                   nEvents, nEdits, harnessVars>>

\* UEventMonitor::new fails (socket or bind): start_udevd returns the error.
SetupFail ==
    /\ daemon.pc = "init"
    /\ Exit("setup")
    /\ UNCHANGED <<ruleDisk, devFs, cmdLog, recent, nEvents, nEdits, harnessVars>>

(* One iteration of the loop of start_udevd is one action, named by what   *)
(* poll and receive_event return in it.                                    *)

\* poll returns Ok(0): continue.
PollTimeout ==
    /\ daemon.pc = "poll"
    /\ UNCHANGED vars

\* poll returns Err: the error is logged, the thread sleeps a second and the
\* loop goes on.
PollError ==
    /\ daemon.pc = "poll"
    /\ UNCHANGED vars

\* poll returns Ok(n), n > 0, and receive_event returns WouldBlock (an empty
\* datagram or EAGAIN): continue.
RecvWouldBlock ==
    /\ daemon.pc = "poll"
    /\ UNCHANGED vars

\* poll returns Ok(n), n > 0, and receive_event returns another error:
\* start_udevd returns it.
RecvError ==
    /\ daemon.pc = "poll"
    /\ Exit("recv")
    /\ UNCHANGED <<ruleDisk, devFs, cmdLog, recent, nEvents, nEdits, harnessVars>>

\* RuleManager::get_rules: a clone of the Arc; `shared` is what the Mutex
\* holds at this moment, kept to compare with what the task reads later.
get_rules(shared) == shared

\* The pool runs the task on any thread that is free; which one makes no
\* difference, and the model takes the first.
FreeTask(w) == task[w].pc = "idle" /\ \A v \in Tasks : v < w => task[v].pc # "idle"

\* poll returns Ok(n), n > 0, and receive_event returns an event: get_rules,
\* then process_event spawns the task on the pool.
Dispatch(w, e) ==
    /\ daemon.pc = "poll"
    /\ nEvents < MaxEvents
    /\ FreeTask(w)
    /\ task' = [task EXCEPT ![w] = [IdleTask EXCEPT !.pc = "spawned", !.event = e,
                                                   !.handle = get_rules(rules)]]
    /\ nEvents' = nEvents + 1
    /\ UNCHANGED <<daemon, rules, mutex, reload, notifyQ, ruleDisk, devFs, cmdLog, recent,
                   nEdits, harnessVars>>

snapshot_rules(handle, shared) == handle

\* What the task reads through its guard: the Vec the shared Mutex holds.
guarded_rules(handle, shared) == shared

\* The task returns: the guard is dropped.
Return(w) ==
    /\ mutex' = 0
    /\ task' = [task EXCEPT ![w] = IdleTask]
    /\ recent' = [prev |-> recent.cur,
                  cur |-> <<[event |-> task[w].event, ran |-> task[w].ran,
                             fault |-> task[w].fault]>>,
                  fresh |-> TRUE]

\* The task starts: `rules.lock().unwrap()` waits for the Mutex, then the
\* DEVTYPE and ACTION filters return or let the loop over the rules begin.
TaskStart(w) ==
    /\ Alive
    /\ task[w].pc = "spawned"
    /\ mutex = 0
    /\ IF passes_filter(task[w].event)
       THEN /\ mutex' = w
            /\ task' = [task EXCEPT ![w].pc = "loop", ![w].i = 1, ![w].locked = rules]
            /\ UNCHANGED recent
       ELSE Return(w)
    /\ UNCHANGED <<daemon, rules, reload, notifyQ, ruleDisk, devFs, cmdLog,
                   nEvents, nEdits, harnessVars>>

after_match_continue(i, n) == i + 1

\* The index the loop goes on with after a matching rule was executed:
\* `break` leaves the loop.
after_match(i, n) == n + 1

\* One pass of `for rule in &*rules`: rule.matches(&event).
TaskEval(w) ==
    LET list == guarded_rules(task[w].handle, rules)
        i == task[w].i
    IN  /\ Alive
        /\ task[w].pc = "loop"
        /\ i <= Len(list)
        /\ task' = [task EXCEPT ![w].seen = Append(@, list[i]),
                                ![w].pc = IF matches(list[i], task[w].event)
                                          THEN "exec" ELSE "loop",
                                ![w].matched = @ \/ matches(list[i], task[w].event),
                                ![w].i = IF matches(list[i], task[w].event)
                                         THEN i ELSE i + 1]
        /\ UNCHANGED <<daemon, rules, mutex, reload, notifyQ, ruleDisk, devFs, cmdLog,
                       recent, nEvents, nEdits, harnessVars>>

\* execute_rule_actions(rule, &event) for the rule that matched.  A panic of
\* the task reaches the pool's panic handler, and the pool's default handler
\* aborts the process.
TaskExecute(w) ==
    LET list == guarded_rules(task[w].handle, rules)
        i == task[w].i
    IN  /\ Alive
        /\ task[w].pc = "exec"
        /\ i <= Len(list)
        /\ \E env \in DaemonEnvs :
             LET out == execute_rule_actions(devFs, cmdLog, list[i], task[w].event, env)
             IN  /\ devFs' = out.fs
                 /\ cmdLog' = out.log
                 /\ IF out.panic
                    THEN Exit("abort")
                    ELSE /\ task' = [task EXCEPT ![w].pc = "loop",
                                                 ![w].ran = Append(@, i),
                                                 ![w].fault = env.fault,
                                                 ![w].i = after_match(i, Len(list))]
                         /\ UNCHANGED <<daemon, rules, mutex, reload, notifyQ>>
        /\ recent' = [recent EXCEPT !.fresh = FALSE]
        /\ UNCHANGED <<ruleDisk, nEvents, nEdits, harnessVars>>

\* The loop is over: the warning when nothing matched, the closing println.
TaskFinish(w) ==
    /\ Alive
    /\ task[w].pc = "loop"
    /\ task[w].i > Len(guarded_rules(task[w].handle, rules))
    /\ Return(w)
    /\ UNCHANGED <<daemon, rules, reload, notifyQ, ruleDisk, devFs, cmdLog,
                   nEvents, nEdits, harnessVars>>

\* Somebody edits the rule directory; the watcher sends a notification.
EditRules ==
    /\ Alive
    /\ nEdits < MaxEdits
    /\ \E d \in DiskStates, kind \in NotifyKinds :
         /\ ruleDisk' = [ruleDisk EXCEPT ![S_rules] = d]
         /\ notifyQ' = Append(notifyQ, kind)
    /\ nEdits' = nEdits + 1
    /\ UNCHANGED <<daemon, rules, mutex, task, reload, devFs, cmdLog, recent, nEvents,
                   harnessVars>>

\* A directory whose parse_rules_file returned Err in this load.
SomeDirFailed(paths, disk) ==
    \E j \in 1..Len(paths) : parse_rules_file(disk[paths[j]]).status = "err"

\* reload_loop takes a notification; for EventKind::Modify it runs
\* load_all_rules, whose result is always Ok.
ReloadTake ==
    /\ Alive
    /\ reload.pc = "wait"
    /\ notifyQ # <<>>
    /\ notifyQ' = Tail(notifyQ)
    /\ IF Head(notifyQ) = "Modify"
       THEN LET res == load_all_rules(RulePaths, ruleDisk)
            IN  reload' = IF res.status = "hang"
                          THEN [pc |-> "hung", new |-> <<>>, failed |-> FALSE]
                          ELSE [pc |-> "swap", new |-> res.rules,
                                failed |-> SomeDirFailed(RulePaths, ruleDisk)]
       ELSE UNCHANGED reload
    /\ UNCHANGED <<daemon, rules, mutex, task, ruleDisk, devFs, cmdLog, recent,
                   nEvents, nEdits, harnessVars>>

lock_free_ignored(m) == TRUE

\* Mutex::lock returns when no other thread holds the guard.
lock_free(m) == m = 0

\* `*rules.lock().unwrap() = new_rules`
ReloadSwap ==
    /\ Alive
    /\ reload.pc = "swap"
    /\ lock_free(mutex)
    /\ rules' = reload.new
    /\ reload' = [reload EXCEPT !.pc = "log"]
    /\ UNCHANGED <<daemon, mutex, task, notifyQ, ruleDisk, devFs, cmdLog, recent,
                   nEvents, nEdits, harnessVars>>

\* `rules.lock().unwrap().len()` for the log line.
ReloadLog ==
    /\ Alive
    /\ reload.pc = "log"
    /\ lock_free(mutex)
    /\ reload' = [pc |-> "wait", new |-> <<>>, failed |-> FALSE]
    /\ UNCHANGED <<daemon, rules, mutex, task, notifyQ, ruleDisk, devFs, cmdLog, recent,
                   nEvents, nEdits, harnessVars>>

Next ==
    \/ SetupOk
    \/ SetupFail
    \/ PollTimeout
    \/ PollError
    \/ RecvWouldBlock
    \/ RecvError
    \/ \E w \in Tasks, e \in DaemonEvents : Dispatch(w, e)
    \/ \E w \in Tasks : TaskStart(w)
    \/ \E w \in Tasks : TaskEval(w)
    \/ \E w \in Tasks : TaskExecute(w)
    \/ \E w \in Tasks : TaskFinish(w)
    \/ EditRules
    \/ ReloadTake
    \/ ReloadSwap
    \/ ReloadLog

Spec == Init /\ [][Next]_vars

-----------------------------------------------------------------------------
(* Properties of the daemon                                                *)

IsPrefix(s, t) == Len(s) <= Len(t) /\ \A j \in 1..Len(s) : s[j] = t[j]

InLoop(w) == task[w].pc \in {"loop", "exec"}

\* The indexes of the rules of `list` that match `event`.
Matching(list, event) == {j \in 1..Len(list) : matches(list[j], event)}

\* C1: for each event only the first rule that matches, in list order, has
\* its actions executed: whenever a task has executed a rule, it executed one
\* rule only, that rule is the matching rule of lowest index, no rule after
\* it was evaluated and the loop is over; when the loop ends without an
\* execution no rule of the list matches.
FirstMatchOnly ==
    \A w \in Tasks :
        InLoop(w) =>
            LET list == task[w].locked
                M == Matching(list, task[w].event)
                ran == task[w].ran
            IN  /\ ran # <<>> =>
                      /\ Len(ran) = 1
                      /\ ran[1] \in M
                      /\ \A k \in M : ran[1] <= k
                      /\ Len(task[w].seen) = ran[1]
                      /\ task[w].i > Len(list)
                /\ (task[w].pc = "loop" /\ task[w].i > Len(list) /\ ran = <<>>) => M = {}

\* C1's case: the loop is over, the task executed the first matching rule and
\* a later rule of the list matches the event too.
FirstMatchOnlyWitness ==
    \E w \in Tasks :
        /\ task[w].pc = "loop"
        /\ task[w].ran # <<>>
        /\ \E k \in Matching(task[w].locked, task[w].event) : k > task[w].ran[1]

\* The path of the device node of an event.
DevPathOf(event) == PathPush(S_root, event[K_DEVNAME])

\* A symlink of the device tree whose target is `p`.
LinksTo(p) == {q \in DOMAIN devFs : devFs[q].kind = "link" /\ devFs[q].target = p}

\* The last two tasks that returned were an add and then a remove of the same
\* device, each executed a rule, no call of theirs failed, and the device
\* tree is as the remove left it.
AddThenRemove ==
    /\ recent.fresh
    /\ recent.prev # <<>> /\ recent.cur # <<>>
    /\ recent.prev[1].ran # <<>> /\ recent.cur[1].ran # <<>>
    /\ recent.prev[1].fault = "none" /\ recent.cur[1].fault = "none"
    /\ Get(recent.prev[1].event, K_ACTION) = Some(S_add)
    /\ Get(recent.cur[1].event, K_ACTION) = Some(S_remove)
    /\ K_DEVNAME \in DOMAIN recent.prev[1].event
    /\ Get(recent.cur[1].event, K_DEVNAME) = Get(recent.prev[1].event, K_DEVNAME)

\* C2: an add event followed by a remove event for the same device leaves no
\* device node and no symlink pointing to that device, at any depth of the
\* device directory.
RemoveUndoesAdd ==
    AddThenRemove =>
        /\ Lookup(devFs, DevPathOf(recent.cur[1].event)) = Absent
        /\ LinksTo(DevPathOf(recent.cur[1].event)) = {}

\* C4: the rule list is not modified while a task is processing an event
\* with it: from the moment the task holds the lock to its return the list
\* is the one the task found.
ListStableWhileProcessing ==
    \A w \in Tasks : InLoop(w) => rules = task[w].locked

\* C4's case: a task is in its loop over the rules while the reload thread
\* holds a new, different list and waits to store it.
ListStableWhileProcessingWitness ==
    \E w \in Tasks :
        /\ InLoop(w)
        /\ task[w].i > 1
        /\ reload.pc = "swap"
        /\ reload.new # rules

FailedReloadRetainsList == [][(ReloadSwap /\ reload.failed) => rules' = rules]_vars

\* C7: no failure while processing an event terminates the daemon: the
\* process never ends because a task failed.
TaskFailureNeverStopsDaemon == daemon.cause # "abort"

\* The three conditions under which the daemon acts on an event.
Actionable(event) ==
    /\ Get(event, K_DEVTYPE) = Some(S_usb_device)
    /\ K_ACTION \in DOMAIN event /\ event[K_ACTION] \in SupportedActions
    /\ K_DEVNAME \in DOMAIN event

\* C29: every step of the daemon that changes the device tree or executes a
\* command is the step of a task whose event has DEVTYPE usb_device, an
\* ACTION among add, remove, change, bind, unbind and a DEVNAME; no step taken
\* for an event failing one of the three does either, even under a rule that
\* matches it.
OnlyActionableEventsAct ==
    [][(devFs' # devFs \/ cmdLog' # cmdLog) =>
          \E w \in Tasks :
              /\ task[w].pc = "exec"
              /\ task'[w] # task[w]
              /\ Actionable(task[w].event)]_vars

\* C29's case: a rule matched an event without DEVNAME and was executed for
\* it, and the tree and the command log are as they were at the start.
OnlyActionableEventsActWitness ==
    \E w \in Tasks :
        /\ task[w].ran # <<>>
        /\ ~Actionable(task[w].event)
        /\ devFs \in InitFsStates
        /\ cmdLog = <<>>

-----------------------------------------------------------------------------
(* The reload thread among the tasks of the pool, every thread scheduled   *)
(* fairly.  The main loop has started and hands add events to the pool.    *)

ReloadEvents == {BaseEvent(S_add, S_n)}

InitReload ==
    /\ daemon = [pc |-> "poll", cause |-> "none"]
    /\ ruleDisk \in [{S_rules} -> InitDisks]
    /\ rules = load_all_rules(RulePaths, ruleDisk).rules
    /\ mutex = 0
    /\ task = [w \in Tasks |-> IdleTask]
    /\ reload = [pc |-> "wait", new |-> <<>>, failed |-> FALSE]
    /\ notifyQ = <<>>
    /\ devFs \in InitFsStates
    /\ cmdLog = <<>>
    /\ recent = [prev |-> <<>>, cur |-> <<>>, fresh |-> FALSE]
    /\ nEvents = 0 /\ nEdits = 0
    /\ sysfs = SysfsFiles
    /\ NoHarness

NextReload ==
    \/ EditRules
    \/ ReloadTake
    \/ ReloadSwap
    \/ ReloadLog
    \/ \E w \in Tasks, e \in ReloadEvents : Dispatch(w, e)
    \/ \E w \in Tasks : TaskStart(w)
    \/ \E w \in Tasks : TaskEval(w)
    \/ \E w \in Tasks : TaskExecute(w)
    \/ \E w \in Tasks : TaskFinish(w)

\* The guards of ReloadTake and TaskExecute(w): each has a next state
\* whenever its guard holds.
TakeReady == Alive /\ reload.pc = "wait" /\ notifyQ # <<>>
ExecReady(w) == Alive /\ task[w].pc = "exec"

\* A thread that can take a step eventually takes one: the reload thread
\* (take, swap, log) and every task of the pool (start, eval, execute,
\* finish).  For ReloadTake and TaskExecute weak fairness is written with the
\* guard: the step is not ready for ever.
SpecReload ==
    /\ InitReload /\ [][NextReload]_vars
    /\ []<>(~TakeReady) /\ WF_vars(ReloadSwap) /\ WF_vars(ReloadLog)
    /\ \A w \in Tasks :
           /\ WF_vars(TaskStart(w)) /\ WF_vars(TaskEval(w)) /\ WF_vars(TaskFinish(w))
           /\ []<>(~ExecReady(w))

ModifyPending == \E j \in 1..Len(notifyQ) : notifyQ[j] = "Modify"

\* What parsing every configured directory yields, as the directories are.
Reparsed == load_all_rules(RulePaths, ruleDisk).rules

\* The reload thread has stored the list it parsed.
Swapped == reload.pc = "log" /\ rules = reload.new

\* C28: after a Modify notification for a watched rule directory the shared
\* list is eventually replaced by the result of reparsing the configured
\* directories (while the process runs; the tasks that hold the list are
\* scheduled fairly and finish), and the list changes only in one step of the
\* reload thread, taken while no task holds the mutex, to the whole reparsed
\* list.
ListEventuallyReparsed ==
    /\ ModifyPending ~> (Swapped \/ ~Alive)
    /\ [][(Alive' /\ rules' # rules) =>
             (reload.pc = "swap" /\ mutex = 0 /\ rules' = Reparsed)]_vars

\* C28 but for a reload that never returns from parsing (C26): the reload
\* thread then stays in load_all_rules.
ListReparsedUnlessParseSpins ==
    /\ ModifyPending ~> (Swapped \/ reload.pc = "hung" \/ ~Alive)
    /\ [][(Alive' /\ rules' # rules) =>
             (reload.pc = "swap" /\ mutex = 0 /\ rules' = Reparsed)]_vars

-----------------------------------------------------------------------------
(* Rule::matches on its own: a rule and an event are drawn, matches is     *)
(* called, a key may then be removed from a matching event (as the test of *)
(* matcher.rs does) and matches called again.                              *)

MaxPredicates == 3

S_a == <<"a">>

OptionOf(values) == {None} \cup {Some(v) : v \in values}

PredicateCount(r) ==
    Cardinality({f \in {"action", "kernel", "subsystem", "driver", "devpath", "tag",
                        "attr", "env_vars"} : r[f] # <<>>})

MatchRules ==
    { r \in { [EmptyRule EXCEPT !.action = a, !.subsystem = sb, !.kernel = k,
                                !.devpath = p, !.driver = d, !.tag = t,
                                !.env_vars = e, !.attr = at] :
                a \in OptionOf({S_add, S_ADD}), sb \in OptionOf({S_usb}),
                k \in OptionOf({S_sda}), p \in OptionOf({S_x}),
                d \in OptionOf({S_drv}), t \in OptionOf({S_t}),
                e \in {<<>>, << <<K_ID, S_1>> >>},
                at \in {<<>>, << <<S_a, S_1>> >>} } :
          PredicateCount(r) <= MaxPredicates }
    \cup {parse_line(LineU), parse_line(LineA), parse_line(LineZ)}

Property(key, o) == IF IsSome(o) THEN key :> o[1] ELSE EmptyMap

MatchEvents ==
    { Property(K_ACTION, a) @@ Property(K_SUBSYSTEM, sb) @@ Property(K_KERNEL, k)
      @@ Property(K_DEVPATH, p) @@ Property(K_DRIVER, d) @@ Property(K_TAG, t)
      @@ Property(K_ID, i) :
        a \in OptionOf({S_add, S_ADD}), sb \in OptionOf({S_usb}),
        k \in OptionOf({S_sda}), p \in OptionOf({S_x}),
        d \in OptionOf({S_drv}), t \in OptionOf({S_t}),
        i \in OptionOf({S_1, S_2}) }

IdleExecutor ==
    [rule |-> EmptyRule, event |-> <<>>, env |-> [fault |-> "none", rev |-> FALSE],
     runs |-> 0, first |-> <<>>, before |-> <<>>, panic |-> FALSE]

InitMatch ==
    /\ NoDaemon
    /\ devFs = EmptyFs /\ cmdLog = <<>>
    /\ sysfs = SysfsFiles
    /\ xh = IdleExecutor
    /\ call = NoCall
    /\ mRule \in MatchRules
    /\ mEvent \in MatchEvents
    /\ mOrig = mEvent
    /\ mResult = <<>>

\* rule.matches(&event)
MatchCall ==
    /\ mResult = <<>>
    /\ mResult' = <<matches(mRule, mEvent)>>
    /\ UNCHANGED <<daemonVars, devFs, cmdLog, sysfs, xh, call, mRule, mEvent, mOrig>>

\* event.remove(key) on an event the rule matched.
MatchRemoveKey ==
    /\ mResult = <<TRUE>>
    /\ mEvent = mOrig
    /\ \E k \in DOMAIN mEvent : mEvent' = Without(mEvent, k)
    /\ mResult' = <<>>
    /\ UNCHANGED <<daemonVars, devFs, cmdLog, sysfs, xh, call, mRule, mOrig>>

NextMatch == MatchCall \/ MatchRemoveKey

SpecMatch == InitMatch /\ [][NextMatch]_vars

(* Properties of Rule::matches *)

\* The rule declares no match predicate at all.
DeclaresNothing(r) ==
    /\ r.action = None /\ r.subsystem = None /\ r.kernel = None
    /\ r.devpath = None /\ r.driver = None /\ r.tag = None
    /\ Len(r.env_vars) = 0 /\ Len(r.attr) = 0

\* C8: a rule that declares no match predicate never matches any event, so a
\* line with no key the matcher reads never causes an action.
NoPredicateNeverMatches ==
    (mResult # <<>> /\ DeclaresNothing(mRule)) => mResult = <<FALSE>>

\* C8's case: matches was called for the rule of a line whose only key is one
\* the parser does not recognise, with an event that carries properties.
NoPredicateNeverMatchesWitness ==
    /\ mResult = <<FALSE>>
    /\ mRule = parse_line(LineU)
    /\ DOMAIN mEvent # {}

\* The rule's only predicate is ACTION.
OnlyAction(r) == r.action # None /\ DeclaresNothing([r EXCEPT !.action = None])

PropertyIs(event, key, value) == key \in DOMAIN event /\ event[key] = value

FieldHolds(configured, event, key) ==
    configured # None => PropertyIs(event, key, configured[1])

\* The attribute file of the device holds the value, surrounding whitespace
\* aside.
AttrIs(event, key, value) ==
    /\ K_DEVPATH \in DOMAIN event
    /\ attr_path(event[K_DEVPATH], key) \in DOMAIN sysfs
    /\ Trim(sysfs[attr_path(event[K_DEVPATH], key)]) = value

AllPredicatesHold(r, event) ==
    /\ FieldHolds(r.action, event, K_ACTION)
    /\ FieldHolds(r.subsystem, event, K_SUBSYSTEM)
    /\ FieldHolds(r.kernel, event, K_KERNEL)
    /\ FieldHolds(r.devpath, event, K_DEVPATH)
    /\ FieldHolds(r.driver, event, K_DRIVER)
    /\ FieldHolds(r.tag, event, K_TAG)
    /\ \A j \in 1..Len(r.env_vars) : PropertyIs(event, r.env_vars[j][1], r.env_vars[j][2])
    /\ \A j \in 1..Len(r.attr) : AttrIs(event, r.attr[j][1], r.attr[j][2])

\* The properties the rule's predicates read.
PredicateKeys(r) ==
    {k \in {K_ACTION, K_SUBSYSTEM, K_KERNEL, K_DEVPATH, K_DRIVER, K_TAG} :
        \/ k = K_ACTION /\ r.action # None
        \/ k = K_SUBSYSTEM /\ r.subsystem # None
        \/ k = K_KERNEL /\ r.kernel # None
        \/ k = K_DEVPATH /\ r.devpath # None
        \/ k = K_DRIVER /\ r.driver # None
        \/ k = K_TAG /\ r.tag # None}
    \cup {r.env_vars[j][1] : j \in 1..Len(r.env_vars)}

\* C10: a rule with at least one predicate matches an event if and only if
\* every configured predicate holds, and a predicate on a property the event
\* does not carry is false, so the rule does not match.
MatchesIffAllPredicatesHold ==
    (mResult # <<>> /\ ~DeclaresNothing(mRule)) =>
        /\ mResult[1] <=> AllPredicatesHold(mRule, mEvent)
        /\ (PredicateKeys(mRule) \ DOMAIN mEvent # {}) => mResult = <<FALSE>>

\* C10's case: the rule matched an event, a property one of its predicates
\* reads was removed from the event, and the rule no longer matches.
MatchesIffAllPredicatesHoldWitness ==
    /\ mResult = <<FALSE>>
    /\ mEvent # mOrig
    /\ matches(mRule, mOrig)
    /\ PredicateKeys(mRule) \ DOMAIN mEvent # {}
    /\ Len(mRule.env_vars) > 0
    /\ mRule.subsystem # None

-----------------------------------------------------------------------------
(* execute_rule_actions on its own: a rule, an event, a filesystem and an  *)
(* environment are drawn, and the function is called again and again with  *)
(* the same rule, event and environment.                                   *)

MaxRuns == 2

S_self == <<"%","n">>
S_rw == <<"r","w">>
S_7 == <<"7">>

\* ACTION=="add", SYMLINK+="l", SYMLINK+="d/%k", MODE="0600", GROUP="usb",
\* RUN+="/bin/false", RUN+="/bin/true"
LineTwoLinks ==
    RuleLine(<< Cap(K_ACTION, "==", S_add), Cap(K_SYMLINK, "+=", S_l),
                Cap(K_SYMLINK, "+=", S_dvar), Cap(K_MODE, "=", S_0600),
                Cap(K_GROUP, "=", S_usbgrp), Cap(K_RUN, "+=", S_false),
                Cap(K_RUN, "+=", S_true) >>)
\* SUBSYSTEM=="usb", SYMLINK+="%n", SYMLINK+="l", MODE="rw"
LineSelfLink ==
    RuleLine(<< Cap(K_SUBSYSTEM, "==", S_usb), Cap(K_SYMLINK, "+=", S_self),
                Cap(K_SYMLINK, "+=", S_l), Cap(K_MODE, "=", S_rw) >>)

ExecRules == {parse_line(l) : l \in {LineA, LineZ, LineR, LineTwoLinks, LineSelfLink}}

ExecEvents ==
    {BaseEvent(a, d) : a \in SupportedActions \cup {S_move}, d \in {S_n, S_dm}}
    \cup { Without(BaseEvent(S_add, S_n), K_DEVNAME),
           BaseEvent(S_add, S_dm) @@ (K_MAJOR :> S_7) @@ (K_MINOR :> S_rw),
           (K_DEVTYPE :> S_disk) @@ BaseEvent(S_add, S_n) }

ExecFsStates ==
    InitFsStates
    \cup { [EmptyFs EXCEPT ![P_d] = DirEntry, ![P_dm] = NodeEntry("S_IFCHR", Zero, Zero),
                           ![P_dk] = LinkEntry(P_dm), ![P_l] = LinkEntry(P_dk)],
           [EmptyFs EXCEPT ![P_d] = DirEntry, ![P_n] = LinkEntry(P_l),
                           ![P_l] = LinkEntry(P_dm)],
           [EmptyFs EXCEPT ![P_d] = DirEntry, ![P_n] = NodeEntry("S_IFCHR", Zero, Zero),
                           ![P_l] = LinkEntry(P_dm)],
           [EmptyFs EXCEPT ![P_d] = DirEntry, ![P_dm] = NodeEntry("S_IFCHR", Zero, Zero),
                           ![P_n] = LinkEntry(P_dm), ![P_l] = LinkEntry(P_dm)],
           [EmptyFs EXCEPT ![P_d] = DirEntry, ![P_dm] = NodeEntry("S_IFCHR", Zero, Zero),
                           ![P_dk] = LinkEntry(P_dm), ![P_l] = LinkEntry(P_n),
                           ![P_n] = NodeEntry("S_IFCHR", Zero, Zero)] }

InitExec ==
    /\ NoDaemon
    /\ mRule = EmptyRule /\ mEvent = <<>> /\ mOrig = <<>> /\ mResult = <<>>
    /\ sysfs = SysfsFiles
    /\ call = NoCall
    /\ cmdLog = <<>>
    /\ devFs \in ExecFsStates
    /\ xh \in [rule : ExecRules, event : ExecEvents, env : Envs,
               runs : {0}, first : {<<>>}, before : {<<>>}, panic : {FALSE}]

\* execute_rule_actions(&rule, &event)
ExecRun ==
    /\ xh.runs < MaxRuns
    /\ ~xh.panic
    /\ LET out == execute_rule_actions(devFs, cmdLog, xh.rule, xh.event, xh.env)
       IN  /\ devFs' = out.fs
           /\ cmdLog' = out.log
           /\ xh' = [xh EXCEPT !.runs = @ + 1,
                               !.first = IF xh.runs = 0 THEN <<out.fs>> ELSE @,
                               !.before = <<[fs |-> devFs, log |-> cmdLog]>>,
                               !.panic = out.panic]
    /\ UNCHANGED <<daemonVars, sysfs, matchVars, call>>

NextExec == ExecRun

SpecExec == InitExec /\ [][NextExec]_vars

(* Properties of execute_rule_actions *)

\* C3: handling an add event is idempotent: executing the same rule for the
\* same add event twice yields the same device tree as executing it once.
AddIsIdempotent ==
    (xh.runs >= 2 /\ Get(xh.event, K_ACTION) = Some(S_add)) => devFs = xh.first[1]

\* C3's case: the rule was executed twice for an add event, and the node and
\* a symlink to it, which the second execution found in place, are there.
AddIsIdempotentWitness ==
    /\ xh.runs = 2
    /\ Get(xh.event, K_ACTION) = Some(S_add)
    /\ K_DEVNAME \in DOMAIN xh.event
    /\ xh.rule.symlink # <<>>
    /\ Lookup(devFs, DevPathOf(xh.event)).kind = "node"
    /\ LinksTo(DevPathOf(xh.event)) # {}
    /\ devFs = xh.first[1]

(* The last execution seen from outside: the tree and the command log it   *)
(* started from, and the event it handled.                                 *)

Ran == xh.before # <<>>
PreFs == xh.before[1].fs
PreLog == xh.before[1].log
NodePath == DevPathOf(xh.event)

HandledAs(actions) ==
    /\ Ran
    /\ K_DEVNAME \in DOMAIN xh.event
    /\ K_ACTION \in DOMAIN xh.event /\ xh.event[K_ACTION] \in actions

\* The paths the rule's symlink patterns expand to for the event, in order.
LinkPathsOf(rule, event) ==
    [i \in 1..Len(rule.symlink) |->
        PathPush(S_root, substitute_vars(rule.symlink[i], event, PropertyKeys(event, FALSE)))]

\* A symlink can be placed at p: p lies in a directory that is there and is
\* not itself a directory.
Linkable(fs, p) ==
    p \in FsPaths /\ is_dir(fs, Parent(p)) /\ Lookup(fs, p).kind # "dir"

\* Every path of `paths`, in order, made a symlink to target wherever one
\* can be placed.
RECURSIVE WithLinks(_, _, _)
WithLinks(fs, target, paths) ==
    IF paths = <<>> THEN fs
    ELSE WithLinks(IF Linkable(fs, Head(paths))
                   THEN [fs EXCEPT ![Head(paths)] = LinkEntry(target)]
                   ELSE fs,
                   target, Tail(paths))

RunOf(rule, action) == IF action \in DOMAIN rule.run THEN rule.run[action] ELSE <<>>

\* C21: an add event whose node is already at <root>/<devnode> is handled to
\* the end: the rule's mode, owner and group are applied to the node that is
\* there, then every symlink of the rule is made, then run["add"] is executed.
AddOnExistingNodeCompletes ==
    (/\ HandledAs({S_add})
     /\ xh.env.fault = "none"
     /\ Lookup(PreFs, NodePath).kind = "node")
    => /\ ~xh.panic
       /\ devFs = WithLinks(ApplyAll(PreFs, NodePath, xh.rule, "none"), NodePath,
                            LinkPathsOf(xh.rule, xh.event))
       /\ cmdLog = PreLog \o RunOf(xh.rule, S_add)

\* No symlink path of the rule holds a symlink that leads nowhere, before
\* the call or once the node's own path has been made a symlink to itself.
NoDanglingLinkPath ==
    \A i \in 1..Len(xh.rule.symlink) :
        LET p == LinkPathsOf(xh.rule, xh.event)[i]
        IN  /\ p # NodePath
            /\ Lookup(PreFs, p).kind = "link" => exists(PreFs, p)

\* C21 holds of every call in which create_symlinks meets no such path.
AddOnExistingNodeCompletesUnlessDangling ==
    (HandledAs({S_add}) /\ NoDanglingLinkPath) => AddOnExistingNodeCompletes

\* C22: on add and bind, whatever is at an expanded link path (a regular
\* file, a symlink to another node, a dangling symlink, or nothing) is
\* replaced by a symlink to <root>/<devnode>, for every pattern of the rule,
\* whether or not an earlier pattern failed.
EveryLinkPathReplaced ==
    (/\ HandledAs({S_add, S_bind})
     /\ xh.env.fault = "none"
     /\ ~xh.panic)
    => \A i \in 1..Len(xh.rule.symlink) :
           LET p == LinkPathsOf(xh.rule, xh.event)[i]
           IN  Linkable(PreFs, p) => Lookup(devFs, p) = LinkEntry(NodePath)

\* C22 holds of every such call too.
EveryLinkPathReplacedUnlessDangling ==
    (HandledAs({S_add, S_bind}) /\ NoDanglingLinkPath) => EveryLinkPathReplaced

\* The paths a remove or unbind event for the node at `node` may change:
\* the symlinks whose canonical target is `target`, and for remove the node's
\* own path.
MayChange(p, node, target, removing) ==
    \/ Lookup(PreFs, p).kind = "link" /\ canonicalize(PreFs, p) = target
    \/ removing /\ p = node

OnlyLinksTo(target) ==
    /\ \A p \in FsPaths :
           \/ devFs[p] = PreFs[p]
           \/ /\ devFs[p] = Absent
              /\ MayChange(p, NodePath, target, xh.event[K_ACTION] = S_remove)
    /\ xh.event[K_ACTION] = S_unbind =>
           \A p \in FsPaths : PreFs[p].kind = "node" => devFs[p] = PreFs[p]

\* C23: a remove or unbind event for devnode n changes nothing under the root
\* except the symlinks whose canonical target is <root>/n and, for remove, the
\* node <root>/n itself; unbind never removes a node.
RemoveTouchesOnlyOwnLinks ==
    HandledAs({S_remove, S_unbind}) => OnlyLinksTo(Some(NodePath))

\* C23 with the target the code compares with: the canonical path of
\* <root>/n, which is another path when <root>/n is itself a symlink.
RemoveTouchesOnlyLinksToCanonicalNode ==
    HandledAs({S_remove, S_unbind}) => OnlyLinksTo(canonicalize(PreFs, NodePath))

\* C23's case: a remove event took away the node and a symlink to it, while
\* another node and a symlink to that other node were there and stayed.
RemoveTouchesOnlyLinksWitness ==
    /\ HandledAs({S_remove})
    /\ PreFs[NodePath].kind = "node" /\ devFs[NodePath] = Absent
    /\ \E p \in FsPaths :
           PreFs[p].kind = "link" /\ canonicalize(PreFs, p) = Some(NodePath)
           /\ devFs[p] = Absent
    /\ \E q \in FsPaths \ {NodePath} :
           /\ PreFs[q].kind = "node" /\ devFs[q] = PreFs[q]
           /\ \E r \in FsPaths :
                  PreFs[r].kind = "link" /\ canonicalize(PreFs, r) = Some(q)
                  /\ devFs[r] = PreFs[r]

\* Entry e without its permission bits, owner and group.
SansAttrs(e) ==
    IF e.kind \in {"absent", "link"} THEN e
    ELSE [e EXCEPT !.mode = 0, !.uid = 0, !.gid = 0]

\* C24: a change event only re-applies mode, owner and group to what
\* <root>/<devnode> leads to: no node and no symlink is created or removed,
\* nothing else changes, and no command is executed, whatever the rule's
\* symlink list and run map hold.
ChangeOnlyReapplies ==
    HandledAs({S_change}) =>
        /\ cmdLog = PreLog
        /\ \A p \in FsPaths :
               /\ SansAttrs(devFs[p]) = SansAttrs(PreFs[p])
               /\ devFs[p] # PreFs[p] => canonicalize(PreFs, NodePath) = Some(p)

\* C24's case: a change event was handled for a node that is there, under a
\* rule with symlinks and commands, and the node's attributes changed.
ChangeOnlyReappliesWitness ==
    /\ HandledAs({S_change})
    /\ xh.rule.symlink # <<>> /\ DOMAIN xh.rule.run # {}
    /\ PreFs[NodePath].kind = "node"
    /\ devFs[NodePath] # PreFs[NodePath]

-----------------------------------------------------------------------------
(* The event ingestor (monitor.rs)                                         *)

\* The byte 0 and a byte that is not valid UTF-8, as characters of a datagram.
NUL == "NUL"
BAD == "xFF"
REPLACEMENT == "uFFFD"

BufSize == 4096

\* String::from_utf8_lossy: an invalid byte becomes U+FFFD.
from_utf8_lossy(bytes) ==
    [j \in 1..Len(bytes) |-> IF bytes[j] = BAD THEN REPLACEMENT ELSE bytes[j]]

\* str::split(sep): the pieces between the separators, empty ones included.
RECURSIVE SplitAt(_, _, _)
SplitAt(s, sep, piece) ==
    IF s = <<>> THEN <<piece>>
    ELSE IF Head(s) = sep THEN <<piece>> \o SplitAt(Tail(s), sep, <<>>)
    ELSE SplitAt(Tail(s), sep, Append(piece, Head(s)))

split(s, sep) == SplitAt(s, sep, <<>>)

FirstIndex(s, c) ==
    IF \E j \in 1..Len(s) : s[j] = c
    THEN CHOOSE j \in 1..Len(s) : s[j] = c /\ \A h \in 1..(j - 1) : s[h] # c
    ELSE 0

split_once_keeping(field, c) ==
    IF FirstIndex(field, c) = 0 THEN None
    ELSE Some(<<SubSeq(field, 1, FirstIndex(field, c) - 1),
                SubSeq(field, FirstIndex(field, c), Len(field))>>)

\* str::split_once(c): the text before the first c and the text after it.
split_once(field, c) ==
    IF FirstIndex(field, c) = 0 THEN None
    ELSE Some(<<SubSeq(field, 1, FirstIndex(field, c) - 1),
                SubSeq(field, FirstIndex(field, c) + 1, Len(field))>>)

\* HashMap::insert
Insert(map, k, v) == [x \in DOMAIN map \cup {k} |-> IF x = k THEN v ELSE map[x]]

\* The loop over the fields of the message.
RECURSIVE insert_fields(_, _)
insert_fields(map, fields) ==
    IF fields = <<>> THEN map
    ELSE LET kv == split_once(Head(fields), "=")
         IN  insert_fields(IF IsSome(kv) THEN Insert(map, kv[1][1], kv[1][2]) ELSE map,
                           Tail(fields))

\* What recv returns: a datagram copied into the buffer, or an errno.
Received(bytes) == [ok |-> TRUE, bytes |-> bytes]
Failed(errno) == [ok |-> FALSE, errno |-> errno]

Ok(v) == [ok |-> TRUE, val |-> v]
Err(kind) == [ok |-> FALSE, kind |-> kind]

\* The arm of receive_event for a datagram that is not empty: the message
\* is split on NUL and every field with a '=' is inserted.
decode_payload(bytes) == insert_fields(EmptyMap, split(from_utf8_lossy(bytes), NUL))

\* UEventMonitor::receive_event on the result r of recv into the buffer.
receive_event(r) ==
    IF r.ok /\ Len(r.bytes) > 0
    THEN Ok(decode_payload(SubSeq(r.bytes, 1,
                                  IF Len(r.bytes) < BufSize THEN Len(r.bytes) ELSE BufSize)))
    ELSE IF r.ok THEN Err("WouldBlock")
    ELSE IF r.errno = "EAGAIN" THEN Err("WouldBlock")
    ELSE Err("Other")

\* A kernel message: the summary line, then KEY=VALUE fields, each closed by NUL.
RECURSIVE Fields(_)
Fields(fs) ==
    IF fs = <<>> THEN <<>> ELSE Head(fs) \o <<NUL>> \o Fields(Tail(fs))

Field(k, v) == k \o <<"=">> \o v

Datagram(action, fs) == Fields(<<action \o <<"@","/","x">> >> \o fs)

F_DEVTYPE == Field(K_DEVTYPE, S_usb_device)
F_SUBSYSTEM == Field(K_SUBSYSTEM, S_usb)
F_DEVPATH == Field(K_DEVPATH, S_x)
F_DEVNAME == Field(K_DEVNAME, S_n)
F_KERNEL == Field(K_KERNEL, S_k)

FullDatagram(action, devname) ==
    Datagram(action, <<Field(K_ACTION, action), F_DEVPATH, F_SUBSYSTEM, F_DEVTYPE,
                       Field(K_DEVNAME, devname), F_KERNEL>>)

LoopDatagrams ==
    { FullDatagram(S_add, S_n), FullDatagram(S_add, S_dm), FullDatagram(S_remove, S_n),
      FullDatagram(S_move, S_n),
      Datagram(S_add, <<Field(K_ACTION, S_add), F_SUBSYSTEM, F_DEVTYPE, F_DEVNAME, F_KERNEL>>),
      Datagram(S_add, <<Field(K_ACTION, S_add), F_DEVPATH, F_DEVTYPE, F_DEVNAME, F_KERNEL>>),
      Datagram(S_add, <<F_DEVPATH, F_SUBSYSTEM, F_DEVTYPE, F_DEVNAME, F_KERNEL>>) }

RecvOutcomes ==
    {Received(d) : d \in LoopDatagrams}
    \cup {Received(<<>>), Failed("EAGAIN"), Failed("EINTR")}

PollOutcomes == {Ok(0), Ok(1), Failed("EINTR")}

-----------------------------------------------------------------------------
(* The loop of start_udevd, one step per call it makes                     *)

InitLoop ==
    /\ daemon = [pc |-> "poll", cause |-> "none", last |-> Ok(0)]
    /\ ruleDisk = [d \in {S_rules} |-> DirAZ]
    /\ rules = load_all_rules(RulePaths, ruleDisk).rules
    /\ mutex = 0
    /\ task = [w \in Tasks |-> IdleTask]
    /\ reload = [pc |-> "wait", new |-> <<>>, failed |-> FALSE]
    /\ notifyQ = <<>>
    /\ devFs = EmptyFs
    /\ cmdLog = <<>>
    /\ recent = [prev |-> <<>>, cur |-> <<>>, fresh |-> FALSE]
    /\ nEvents = 0 /\ nEdits = 0
    /\ sysfs = SysfsFiles
    /\ NoHarness

mainVars == <<rules, mutex, reload, notifyQ, ruleDisk, devFs, cmdLog, recent, nEdits,
              harnessVars>>

\* poll(&mut [poll_fd], POLL_TIMEOUT) returns.
LoopPoll(r) ==
    /\ daemon.pc = "poll"
    /\ daemon' = [daemon EXCEPT !.pc = "polled", !.last = r]
    /\ UNCHANGED <<task, nEvents, mainVars>>

\* The match on poll's result: Ok(0) continues, Ok(_) goes on to
\* receive_event, Err logs and sleeps.
LoopAfterPoll ==
    /\ daemon.pc = "polled"
    /\ daemon' = [daemon EXCEPT !.pc = IF ~daemon.last.ok THEN "sleep"
                                       ELSE IF daemon.last.val = 0 THEN "poll"
                                       ELSE "recv"]
    /\ UNCHANGED <<task, nEvents, mainVars>>

\* thread::sleep(Duration::from_millis(1000)) is over.
LoopSleep ==
    /\ daemon.pc = "sleep"
    /\ daemon' = [daemon EXCEPT !.pc = "poll"]
    /\ UNCHANGED <<task, nEvents, mainVars>>

\* recv returns inside receive_event.
LoopRecv(r) ==
    /\ daemon.pc = "recv"
    /\ (r.ok /\ r.bytes # <<>>) => nEvents < MaxEvents
    /\ daemon' = [daemon EXCEPT !.pc = "recvd", !.last = r]
    /\ UNCHANGED <<task, nEvents, mainVars>>

\* The match on receive_event's result: an event is handed to the pool,
\* WouldBlock continues, another error is returned from start_udevd.
LoopAfterRecv(w) ==
    LET res == receive_event(daemon.last)
    IN  /\ daemon.pc = "recvd"
        /\ FreeTask(w)
        /\ IF res.ok
           THEN /\ daemon' = [daemon EXCEPT !.pc = "poll"]
                /\ task' = [task EXCEPT ![w] = [IdleTask EXCEPT !.pc = "spawned",
                                                               !.event = res.val,
                                                               !.handle = get_rules(rules)]]
                /\ nEvents' = nEvents + 1
                /\ UNCHANGED <<rules, mutex, reload, notifyQ>>
           ELSE IF res.kind = "WouldBlock"
           THEN /\ daemon' = [daemon EXCEPT !.pc = "poll"]
                /\ UNCHANGED <<task, nEvents, rules, mutex, reload, notifyQ>>
           ELSE /\ Exit("recv")
                /\ UNCHANGED nEvents
        /\ UNCHANGED <<ruleDisk, devFs, cmdLog, recent, nEdits, harnessVars>>

NextLoop ==
    \/ \E r \in PollOutcomes : LoopPoll(r)
    \/ LoopAfterPoll
    \/ LoopSleep
    \/ \E r \in RecvOutcomes : LoopRecv(r)
    \/ \E w \in Tasks : LoopAfterRecv(w)
    \/ \E w \in Tasks : TaskStart(w)
    \/ \E w \in Tasks : TaskEval(w)
    \/ \E w \in Tasks : TaskExecute(w)
    \/ \E w \in Tasks : TaskFinish(w)

SpecLoop == InitLoop /\ [][NextLoop]_vars

(* Properties of the loop and of the tasks it spawns *)

\* The keys UEventDevice::from_event requires.
RequiredKeys == {K_ACTION, K_SUBSYSTEM, K_DEVPATH}

Complete(event) == RequiredKeys \subseteq DOMAIN event

\* C14: an event that lacks any of ACTION, SUBSYSTEM or DEVPATH is dropped:
\* no rule is evaluated for it and none is executed, so that it changes
\* neither the filesystem nor the command log.
IncompleteEventDropped ==
    \A w \in Tasks :
        (task[w].pc # "idle" /\ ~Complete(task[w].event)) =>
            /\ ~InLoop(w)
            /\ task[w].seen = <<>>
            /\ task[w].ran = <<>>

\* The event names an action, and not one of the five the daemon handles.
Unsupported(event) == K_ACTION \in DOMAIN event /\ event[K_ACTION] \notin SupportedActions

InFlight == {w \in Tasks : task[w].pc # "idle"}
Handled == recent.prev \o recent.cur

\* Every event received so far is in sight, and each has an unsupported action.
OnlyUnsupportedSoFar ==
    /\ nEvents = Cardinality(InFlight) + Len(Handled)
    /\ \A w \in InFlight : Unsupported(task[w].event)
    /\ \A j \in 1..Len(Handled) : Unsupported(Handled[j].event)

\* C15: an event whose action is not add, remove, change, bind or unbind has
\* no rule evaluated or executed; while only such events have been received
\* the filesystem is as it was and no command has been executed.
UnsupportedActionIgnored ==
    /\ \A w \in InFlight :
           Unsupported(task[w].event) =>
               ~InLoop(w) /\ task[w].seen = <<>> /\ task[w].ran = <<>>
    /\ \A j \in 1..Len(Handled) :
           Unsupported(Handled[j].event) => Handled[j].ran = <<>>
    /\ OnlyUnsupportedSoFar => devFs = EmptyFs /\ cmdLog = <<>>

\* C15's case: a task has returned for an event with ACTION=move, and no
\* other kind of event has been received.
UnsupportedActionIgnoredWitness ==
    /\ recent.cur # <<>>
    /\ Get(recent.cur[1].event, K_ACTION) = Some(S_move)
    /\ OnlyUnsupportedSoFar

\* The main thread returns from the loop only after recv failed with an
\* errno other than EAGAIN; a process abort is not its doing.
MainLeavesLoopOnlyOnRecvError ==
    [][(Alive /\ ~Alive') =>
          \/ daemon'.cause = "abort"
          \/ daemon.pc = "recvd" /\ ~daemon.last.ok /\ daemon.last.errno # "EAGAIN"]_vars

\* C16: the loop keeps running across poll timeouts, WouldBlock results (an
\* empty datagram or EAGAIN) and poll errors; it is left only when
\* receive_event returns an error other than WouldBlock.
LoopLeftOnlyOnRecvError ==
    [][(Alive /\ ~Alive') =>
          (daemon.pc = "recvd" /\ ~daemon.last.ok /\ daemon.last.errno # "EAGAIN")]_vars

\* The guard taken at the head of the task is held until the task returns:
\* no two tasks are past it together.
AtMostOneInLoop == \A w1, w2 \in Tasks : (InLoop(w1) /\ InLoop(w2)) => w1 = w2

\* C17: the tasks of two distinct events run in parallel: while one task is
\* between the start of rule evaluation and the end of action execution, a
\* task spawned for another event can start.
TasksRunInParallel ==
    \A w1, w2 \in Tasks :
        (w1 # w2 /\ InLoop(w1) /\ task[w2].pc = "spawned") => ENABLED TaskStart(w2)

-----------------------------------------------------------------------------
(* Functions called on their own: an argument is drawn, the function is    *)
(* called once and its result kept.                                        *)

MaxFiles == 2

File9 == RuleFile(<<"9","-","b",".","r","u","l","e","s">>, <<LineR>>)
FileBig == RuleFile(<<"4","2","9","4","9","6","7","2","9","6","-","c",".","r","u","l","e","s">>, <<LineTwoLinks>>)
File10Locked == [File10 EXCEPT !.openable = FALSE]

FileUsb50 == RuleFile(<<"u","s","b","-","5","0",".","r","u","l","e","s">>, <<LineSelfLink>>)
RuleFiles == {File9, File10, File99, FileBig, File10Locked, FileUsb50, SubDir}

\* The sequences of `n` files of different names, in any order.
RECURSIVE FileSeqs(_)
FileSeqs(n) ==
    IF n = 0 THEN {<<>>}
    ELSE {Append(fs, f) : fs \in FileSeqs(n - 1), f \in RuleFiles} 

DistinctNames(entries) ==
    \A i, j \in 1..Len(entries) : i # j => entries[i].name # entries[j].name

\* The rule directories drawn: what read_dir can return for them, in the
\* order it returns it.
RuleDirs ==
    {[readable |-> TRUE, entries |-> es] :
        es \in {fs \in UNION {FileSeqs(n) : n \in 0..MaxFiles} : DistinctNames(fs)}}
    \cup {[readable |-> FALSE, entries |-> <<>>]}

Call(fn, arg) == [fn |-> fn, arg |-> arg, ret |-> <<>>]

ParseCalls == {Call("parse_rules_file", d) : d \in RuleDirs}
LoadCalls == {Call("load_all_rules", d) : d \in RuleDirs}

NoProgram ==
    /\ NoDaemon
    /\ devFs = EmptyFs /\ cmdLog = <<>>
    /\ sysfs = SysfsFiles
    /\ xh = IdleExecutor
    /\ mRule = EmptyRule /\ mEvent = <<>> /\ mOrig = <<>> /\ mResult = <<>>

Returns(value) ==
    /\ call.ret = <<>>
    /\ call' = [call EXCEPT !.ret = <<value>>]
    /\ UNCHANGED <<daemonVars, devFs, cmdLog, sysfs, matchVars, xh>>

\* parse_rules_file(dir)
CallParseRulesFile ==
    /\ call.fn = "parse_rules_file"
    /\ parse_rules_file(call.arg).status # "hang"
    /\ Returns(parse_rules_file(call.arg))

\* load_all_rules(&[dir])
CallLoadAllRules ==
    /\ call.fn = "load_all_rules"
    /\ load_all_rules(RulePaths, S_rules :> call.arg).status # "hang"
    /\ Returns(load_all_rules(RulePaths, S_rules :> call.arg))

\* `for line in reader.lines().flatten()` on an entry whose every read
\* fails: the loop takes one more turn, and the call has not returned.
CallSpins ==
    /\ call.fn \in {"parse_rules_file", "load_all_rules"}
    /\ call.ret = <<>>
    /\ load_all_rules(RulePaths, S_rules :> call.arg).status = "hang"
    /\ UNCHANGED vars

Returned(fn) == call.fn = fn /\ call.ret # <<>>

\* The digits a file name starts with.
RECURSIVE LeadingDigits(_)
LeadingDigits(name) ==
    IF name # <<>> /\ IsDigit(Head(name))
    THEN <<Head(name)>> \o LeadingDigits(Tail(name))
    ELSE <<>>

\* The numeric prefix of a file name, as a canonical decimal string.
NumericPrefix(name) == StripZeros(LeadingDigits(name))

HasNumericPrefix(name) == LeadingDigits(name) # <<>>

\* The rules of the files of `entries`, file after file.
RECURSIVE RulesOfFiles(_)
RulesOfFiles(entries) ==
    IF entries = <<>> THEN <<>>
    ELSE parse_lines(Head(entries).lines) \o RulesOfFiles(Tail(entries))

\* The orders of the files `entries` names.
FileOrders(entries) ==
    {o \in [1..Len(entries) -> 1..Len(entries)] :
        \A i, j \in 1..Len(entries) : i # j => o[i] # o[j]}

InOrder(entries, o) == [i \in 1..Len(entries) |-> entries[o[i]]]

AscendingPrefix(entries) ==
    \A i, j \in 1..Len(entries) :
        i < j => ~NumLess(NumericPrefix(entries[j].name), NumericPrefix(entries[i].name))

\* C11: the list parse_rules_file returns orders the rules by the ascending
\* numeric prefix of the file they come from and, within a file, by line
\* order: it is the rules of the files, file after file, the files taken in
\* an order of ascending prefix.
RulesInPrefixOrder ==
    (/\ Returned("parse_rules_file")
     /\ call.ret[1].status = "ok"
     /\ \A i \in 1..Len(call.arg.entries) : HasNumericPrefix(call.arg.entries[i].name)) =>
        \E o \in FileOrders(call.arg.entries) :
            /\ AscendingPrefix(InOrder(call.arg.entries, o))
            /\ call.ret[1].rules = RulesOfFiles(InOrder(call.arg.entries, o))

\* The files of a directory that can be opened, in read_dir order.
Openable(entries) == SelectSeq(entries, LAMBDA e : e.openable)

\* C13: when a file of a rule directory cannot be opened only that file is
\* skipped: the loaded list holds the rules of every other file of the
\* directory, in order, that is, what loading the directory without the
\* file gives.
OnlyUnreadableFileSkipped ==
    (Returned("load_all_rules") /\ call.arg.readable) =>
        call.ret[1].rules =
            load_all_rules(RulePaths,
                           S_rules :> [call.arg EXCEPT !.entries = Openable(@)]).rules

\* The entries of a directory that are regular files, in read_dir order.
RegularFiles(entries) == SelectSeq(entries, LAMBDA e : e.kind = "file")

\* C26: loading the rules of a directory terminates whatever the directory
\* holds, and takes rules from regular files only: the call returns, with
\* what loading the directory without its other entries gives.
LoadTakesRegularFilesOnly ==
    /\ (call.fn = "load_all_rules" /\ call.ret = <<>>) => ENABLED CallLoadAllRules
    /\ Returned("load_all_rules") =>
           call.ret[1].rules =
               load_all_rules(RulePaths,
                              S_rules :> [call.arg EXCEPT !.entries = RegularFiles(@)]).rules

SortKeyCalls == {Call("sort_key", e.name) : e \in RuleFiles}

\* The closure of entries.sort_by_key, on one file name.
CallSortKey ==
    /\ call.fn = "sort_key"
    /\ Returns(sort_key(call.arg))

\* The number the digits at the start of a file name form; 0 without any.
LeadingNumber(name) == IF HasNumericPrefix(name) THEN NumericPrefix(name) ELSE Zero

AscendingLeadingNumber(entries) ==
    \A i, j \in 1..Len(entries) :
        i < j => ~NumLess(LeadingNumber(entries[j].name), LeadingNumber(entries[i].name))

\* C27: the sort key of a rule file is the number the decimal digits at the
\* start of its name form, and 0 when the name does not start with a digit;
\* the rules of a directory come in ascending order of that number, so that
\* a file without leading digits comes before every file whose leading
\* number is greater than 0.
SortKeyIsLeadingNumber ==
    /\ Returned("sort_key") => call.ret[1] = LeadingNumber(call.arg)
    /\ (Returned("parse_rules_file") /\ call.ret[1].status = "ok") =>
           \E o \in FileOrders(call.arg.entries) :
               /\ AscendingLeadingNumber(InOrder(call.arg.entries, o))
               /\ call.ret[1].rules = RulesOfFiles(InOrder(call.arg.entries, o))

MaxCaps == 3

LineCaps ==
    { Cap(K_ACTION, "==", S_add), Cap(K_ACTION, "==", S_remove),
      Cap(K_RUN, "+=", S_true), Cap(K_RUN, "+=", S_false),
      Cap(K_SYMLINK, "+=", S_l) }

RECURSIVE CapSeqs(_)
CapSeqs(n) ==
    IF n = 0 THEN {<<>>}
    ELSE {Append(cs, c) : cs \in CapSeqs(n - 1), c \in LineCaps}

LineCalls == {Call("parse_line", RuleLine(cs)) : cs \in UNION {CapSeqs(n) : n \in 0..MaxCaps}}

\* The body of the lines loop for one line that is not skipped.
CallParseLine ==
    /\ call.fn = "parse_line"
    /\ Returns(parse_line(call.arg))

\* The values of the captures of a line with the given key and operator.
RECURSIVE ValuesOf(_, _, _)
ValuesOf(caps, key, op) ==
    IF caps = <<>> THEN <<>>
    ELSE IF Head(caps).key = key /\ Head(caps).op = op
    THEN <<Head(caps).val>> \o ValuesOf(Tail(caps), key, op)
    ELSE ValuesOf(Tail(caps), key, op)

\* C12: every key of a parsed rule's run map is the rule's action predicate;
\* every RUN+= command of a line that declares ACTION==a is stored, in line
\* order, in run[a]; a line with no ACTION== yields an empty run map.
RunKeyedByAction ==
    Returned("parse_line") =>
        LET r == call.ret[1]
            cmds == ValuesOf(call.arg.caps, K_RUN, "+=")
            declared == ValuesOf(call.arg.caps, K_ACTION, "==")
        IN  /\ \A k \in DOMAIN r.run : r.action = Some(k)
            /\ (Len(declared) = 1 /\ cmds # <<>>) =>
                   declared[1] \in DOMAIN r.run /\ r.run[declared[1]] = cmds
            /\ declared = <<>> => DOMAIN r.run = {}

(* The query command (main.rs, udevadm.rs, libudev.rs) *)

S_devx == <<"/","d","e","v","/","x">>
K_PHYSDEVPATH == <<"P","H","Y","S","D","E","V","P","A","T","H">>
K_DEVMODE == <<"D","E","V","M","O","D","E">>

\* Path::file_name: the last component.
RECURSIVE FileName(_)
FileName(path) ==
    IF \E j \in 1..Len(path) : path[j] = "/"
    THEN FileName(SubSeq(path, FirstIndex(path, "/") + 1, Len(path)))
    ELSE path

\* str::lines: the pieces between line feeds, without a trailing carriage
\* return, and without the empty piece after a final line feed.
StripCr(s) == IF s # <<>> /\ s[Len(s)] = "\r" THEN SubSeq(s, 1, Len(s) - 1) ELSE s

str_lines(s) ==
    LET pieces == split(s, "\n")
        kept == IF pieces[Len(pieces)] = <<>> THEN SubSeq(pieces, 1, Len(pieces) - 1)
                ELSE pieces
    IN  [j \in 1..Len(kept) |-> StripCr(kept[j])]

\* format!("{:o}", n)
RECURSIVE ToOctal(_)
ToOctal(n) ==
    IF n < 8 THEN <<Digits[n + 1]>>
    ELSE Append(ToOctal(n \div 8), Digits[(n % 8) + 1])

\* The uevent lines of a character device: DEVNAME is the caller's.
RECURSIVE insert_lines_but(_, _, _)
insert_lines_but(map, lines, kept) ==
    IF lines = <<>> THEN map
    ELSE LET kv == split_once(Head(lines), "=")
         IN  insert_lines_but(IF IsSome(kv) /\ kv[1][1] # kept
                              THEN Insert(map, kv[1][1], kv[1][2]) ELSE map,
                              Tail(lines), kept)

InsertIf(map, k, o) == IF IsSome(o) THEN Insert(map, k, o[1]) ELSE map

\* What is at the queried path: `kind` is "missing", "char", "dir" or
\* "file"; for a character device `sys` tells whether /sys/dev/char/M:m
\* exists, and uevent, subsystem, type, driver and device are read there;
\* for a directory uevent and subsystem are read in it.
Target(kind, sys, uevent, subsys) ==
    [kind |-> kind, sys |-> sys, uevent |-> uevent, subsystem |-> subsys,
     type |-> None, driver |-> None, device |-> None, mode |-> 438]

S_uevent == <<"M","A","J","O","R","=","1","\n","D","E","V","N","A","M","E","=","z","\r","\n",
              "\n","J","U","N","K">>
S_class_mem == <<".",".","/","c","l","a","s","s","/","m","e","m">>

QueryTargets ==
    { Target("missing", FALSE, None, None),
      Target("file", FALSE, None, None),
      Target("char", FALSE, None, None),
      Target("char", TRUE, None, None),
      [Target("char", TRUE, Some(S_uevent), Some(S_class_mem))
          EXCEPT !.type = Some(<<" ","c","\n">>), !.driver = Some(<<"/","d","r","v">>),
                 !.device = Some(<<"/","p","c","i">>)],
      Target("dir", FALSE, None, None),
      Target("dir", FALSE, Some(S_uevent), Some(S_class_mem)),
      Target("dir", FALSE, Some(<<>>), None) }

get_device_info(dev_path, t) ==
    IF t.kind = "missing" THEN None
    ELSE IF t.kind = "char"
    THEN IF ~t.sys THEN None
         ELSE LET named == Insert(EmptyMap, K_DEVNAME, dev_path)
                  read == IF IsSome(t.uevent)
                          THEN insert_lines_but(named, str_lines(t.uevent[1]), K_DEVNAME)
                          ELSE named
                  sub == InsertIf(read, K_SUBSYSTEM,
                                  IF IsSome(t.subsystem) THEN Some(FileName(t.subsystem[1]))
                                  ELSE None)
                  typ == InsertIf(sub, K_DEVTYPE,
                                  IF IsSome(t.type) THEN Some(Trim(t.type[1])) ELSE None)
                  drv == InsertIf(typ, K_DRIVER,
                                  IF IsSome(t.driver) THEN Some(FileName(t.driver[1]))
                                  ELSE None)
                  phys == InsertIf(drv, K_PHYSDEVPATH, t.device)
              IN  Some(Insert(phys, K_DEVMODE, ToOctal(t.mode % 512)))
    ELSE IF t.kind = "dir" /\ IsSome(t.uevent)
    THEN Some(InsertIf(insert_fields(EmptyMap, str_lines(t.uevent[1])), K_SUBSYSTEM,
                       IF IsSome(t.subsystem) THEN Some(FileName(t.subsystem[1])) ELSE None))
    ELSE None

udevadm_info(device_path, t) ==
    IF IsSome(get_device_info(device_path, t)) THEN Ok(<<>>) ELSE Err("DeviceNotFound")

udevadm_cli(device_path, t) == udevadm_info(device_path, t)

\* run_udevadm returns nothing: what it leaves is the level of its log line.
run_udevadm(device_path, t) == IF udevadm_cli(device_path, t).ok THEN "info" ELSE "error"

\* The exit status of a main that returns.
ExitSuccess == 0

\* main with the arguments `udevadm --path <device_path>`.
main(device_path, t) == [log |-> run_udevadm(device_path, t), exit |-> ExitSuccess]

QueryCalls == {Call("main", [path |-> S_devx, target |-> t]) : t \in QueryTargets}

CallMain ==
    /\ call.fn = "main"
    /\ Returns(main(call.arg.path, call.arg.target))

\* C18: in query mode the command ends with a non-zero exit status when the
\* device path does not exist or get_device_info finds nothing for it, and
\* with exit status 0 when information is found.
QueryExitTellsFound ==
    Returned("main") =>
        IF IsSome(get_device_info(call.arg.path, call.arg.target))
        THEN call.ret[1].exit = 0
        ELSE call.ret[1].exit # 0

(* substitute_vars on its own *)

K_A == <<"A">>
S_pct_n == <<"%","n">>
S_ref_kernel == <<"$","{","K","E","R","N","E","L","}">>
S_tty == <<"t","t","y","U","S","B","0">>

SubstInputs ==
    { <<"b","y","-","i","d","/","%","k">>,
      <<"%","k","%","n","%","m","%","k">>,
      <<"%","c","%","t","-","$","{","A","}","%","z">>,
      <<"%","%","k","n">>,
      <<"$","{","%","k","}">> }

SubstDevices ==
    LET base == (K_DEVNAME :> S_n) @@ (K_MAJOR :> <<"0","8">>)
    IN  { base @@ (K_KERNEL :> kv) @@ (K_A :> av) :
              kv \in {S_tty, S_pct_n, <<>>, K_A}, av \in {S_l, S_ref_kernel} }
        \cup { base @@ (K_A :> S_l) }

\* The orders in which a HashMap of these keys can be visited.
KeyOrders(keys) ==
    {o \in [1..Cardinality(keys) -> keys] : \A i, j \in DOMAIN o : o[i] = o[j] => i = j}

SubstCalls ==
    { c \in { Call("substitute_vars", [input |-> inp, device |-> d, keys |-> o]) :
          inp \in SubstInputs, d \in SubstDevices,
          o \in UNION {KeyOrders(DOMAIN dd) : dd \in SubstDevices} } :
          DOMAIN c.arg.device = {c.arg.keys[j] : j \in DOMAIN c.arg.keys} }

CallSubstituteVars ==
    /\ call.fn = "substitute_vars"
    /\ Returns(substitute_vars(call.arg.input, call.arg.device, call.arg.keys))

\* The value of the token %c for the device, if it has one.
TokenValue(device, c) ==
    LET vs == SubstVars(device)
    IN  IF \E j \in 1..Len(vs) : vs[j][1] = c /\ IsSome(vs[j][2])
        THEN (CHOOSE v \in {vs[j][2] : j \in {h \in 1..Len(vs) : vs[h][1] = c}} : TRUE)
        ELSE None

\* The property a text that starts with ${NAME} names, if the device has it.
PropertyToken(text, device) ==
    IF Len(text) >= 3 /\ text[1] = "$" /\ text[2] = "{" /\ FirstIndex(text, "}") > 0
       /\ SubSeq(text, 3, FirstIndex(text, "}") - 1) \in DOMAIN device
    THEN Some(SubSeq(text, 3, FirstIndex(text, "}") - 1))
    ELSE None

\* Every token of the input replaced by its value, the rest copied.
RECURSIVE Substituted(_, _)
Substituted(input, device) ==
    IF input = <<>> THEN <<>>
    ELSE IF Len(input) >= 2 /\ input[1] = "%" /\ IsSome(TokenValue(device, input[2]))
    THEN TokenValue(device, input[2])[1] \o Substituted(SubSeq(input, 3, Len(input)), device)
    ELSE IF IsSome(PropertyToken(input, device))
    THEN device[PropertyToken(input, device)[1]]
         \o Substituted(SubSeq(input, FirstIndex(input, "}") + 1, Len(input)), device)
    ELSE <<Head(input)>> \o Substituted(Tail(input), device)

\* C19: substitute_vars replaces every %k, %n, %p, %c, %t, %d, %s, %m, %r by
\* the device's kernel, devnode, devpath, devtype, devtype, devnum,
\* subsystem, major, minor and every ${NAME} by properties[NAME]; a token
\* whose value is absent and text that is not a token are left unchanged.
TokensReplacedByValues ==
    Returned("substitute_vars") =>
        call.ret[1] = Substituted(call.arg.input, call.arg.device)

\* C30: substitute_vars is deterministic and single-pass: its result is the
\* same for every order in which the properties are visited, and the text
\* inserted for a token is in the output as it is, never replaced as a token.
SubstitutionIsSinglePass ==
    Returned("substitute_vars") =>
        /\ \A o \in KeyOrders(DOMAIN call.arg.device) :
               substitute_vars(call.arg.input, call.arg.device, o) = call.ret[1]
        /\ call.ret[1] = Substituted(call.arg.input, call.arg.device)

\* The first half alone: the result is the same for every order in which
\* the properties are visited.
OrderIndependent ==
    Returned("substitute_vars") =>
        \A o \in KeyOrders(DOMAIN call.arg.device) :
            substitute_vars(call.arg.input, call.arg.device, o) = call.ret[1]

(* The payload of a datagram *)

MaxFields == 2

PayloadFields ==
    { <<"A","=","1">>, <<"A","=","2">>, <<"B","=">>, <<"=","v">>, <<"B","=","x","=","y">>,
      <<"a","d","d","@","/","x">>, <<>>, <<"A","B","=",BAD>> }

RECURSIVE FieldSeqs(_)
FieldSeqs(n) ==
    IF n = 0 THEN {<<>>}
    ELSE {Append(fs, f) : fs \in FieldSeqs(n - 1), f \in PayloadFields}

\* Fields separated by NUL.
RECURSIVE JoinFields(_)
JoinFields(fs) ==
    IF fs = <<>> THEN <<>>
    ELSE IF Len(fs) = 1 THEN fs[1]
    ELSE Head(fs) \o <<NUL>> \o JoinFields(Tail(fs))

Payloads == {JoinFields(fs) : fs \in UNION {FieldSeqs(n) : n \in 1..MaxFields}}

RecvCalls == {Call("receive_event", Received(p)) : p \in Payloads}

CallReceiveEvent ==
    /\ call.fn = "receive_event"
    /\ Returns(receive_event(call.arg))

\* The code points of the characters of the keys.
CharCode(c) ==
    CASE c = "=" -> 61
      [] c = "A" -> 65
      [] c = "B" -> 66
      [] OTHER -> 0

\* s sorts before t, as byte strings.
RECURSIVE StrLess(_, _)
StrLess(s, t) ==
    IF t = <<>> THEN FALSE
    ELSE IF s = <<>> THEN TRUE
    ELSE IF Head(s) = Head(t) THEN StrLess(Tail(s), Tail(t))
    ELSE CharCode(Head(s)) < CharCode(Head(t))

\* The keys of a map in ascending order.
RECURSIVE SortedKeys(_)
SortedKeys(keys) ==
    IF keys = {} THEN <<>>
    ELSE LET least == CHOOSE k \in keys : \A other \in keys \ {k} : StrLess(k, other)
         IN  <<least>> \o SortedKeys(keys \ {least})

\* The map written back as NUL-separated K=V fields, sorted by key.
encode_payload(map) ==
    LET keys == SortedKeys(DOMAIN map)
    IN  JoinFields([j \in 1..Len(keys) |-> Field(keys[j], map[keys[j]])])

\* The keys of the K=V fields of a payload.
KeysOfPayload(bytes) ==
    LET fields == split(bytes, NUL)
    IN  { SubSeq(fields[j], 1, FirstIndex(fields[j], "=") - 1) :
              j \in {h \in 1..Len(fields) : FirstIndex(fields[h], "=") > 0} }

-----------------------------------------------------------------------------
(* run_commands on its own                                                 *)

MaxCmds == 3

RECURSIVE CommandLists(_)
CommandLists(n) ==
    IF n = 0 THEN {<<>>}
    ELSE {Append(cs, c) : cs \in CommandLists(n - 1), c \in {S_true, S_false}}

RunCalls ==
    {Call("run_commands", [commands |-> cs, fault |-> f]) :
        cs \in UNION {CommandLists(n) : n \in 0..MaxCmds}, f \in {"none", "spawn"}}

\* run_commands(&commands, &device), started with an empty log.
CallRunCommands ==
    /\ call.fn = "run_commands"
    /\ Returns([log |-> run_commands(<<>>, call.arg.commands, call.arg.fault),
                ok |-> run_commands_ok(call.arg.commands, call.arg.fault)])

\* C25: run_commands executes the commands in list order, one after the
\* other; a command that exits with a status other than 0 does not end the
\* list: every command of the list is executed and the call returns Ok.
NonZeroExitDoesNotStopList ==
    (Returned("run_commands") /\ call.arg.fault = "none") =>
        /\ call.ret[1].log = call.arg.commands
        /\ call.ret[1].ok

\* C25's case: a command that exits with status 1 was followed by others,
\* which were executed.
NonZeroExitDoesNotStopListWitness ==
    /\ Returned("run_commands") /\ call.arg.fault = "none"
    /\ \E i \in 1..Len(call.arg.commands) - 1 :
           /\ ExitStatus(call.arg.commands[i]) # 0
           /\ call.ret[1].log[i + 1] = call.arg.commands[i + 1]
    /\ call.ret[1].ok

InitCall ==
    /\ NoProgram
    /\ call \in ParseCalls \cup LoadCalls \cup LineCalls \cup QueryCalls \cup SubstCalls
                \cup RecvCalls \cup SortKeyCalls \cup RunCalls

NextCall ==
    \/ CallParseRulesFile
    \/ CallLoadAllRules
    \/ CallSpins
    \/ CallParseLine
    \/ CallMain
    \/ CallSubstituteVars
    \/ CallReceiveEvent
    \/ CallSortKey
    \/ CallRunCommands

SpecCall == InitCall /\ [][NextCall]_vars

====
